---- MODULE Spec2Model ----
(***************************************************************************)
(* A model of the thermal-frame / annotation pipeline: the timestamp       *)
(* matching operations, the TDengine frame retrieval, the category         *)
(* registries, the compressed-frame codec, the text loader, the renderer,  *)
(* the video and image exports, the dataset samples, the temperature       *)
(* conversion and the YOLO label export.                                   *)
(*                                                                         *)
(* Units.  Annotation timestamps (data_time) are integer milliseconds.     *)
(* Frame timestamps of the text format are seconds with a fractional part; *)
(* they are held here as integer ticks of 0.1 ms, so that int(ts * 1000)   *)
(* is a truncation that loses something.  Products and quotients are exact *)
(* (the rounding of binary floating point is not modelled, except where a  *)
(* table says so).                                                         *)
(***************************************************************************)
EXTENDS Integers, Sequences, FiniteSets, TLC

\* ------------------------------------------------------------- bounds
MaxFrames == 3
MaxAnnotations == 2

\* ------------------------------------------------- program constants
\* the tolerance hard-coded in the single-match operations, in ms
DefaultToleranceMs == 100

VARIABLES
    text_file,      \* a text-format file: its lines, and the loader's target_shape
    scene,          \* what the renderer is handed: a frame and bounds, or a
                    \* frame shape with boxes and a label size
    timestamps,     \* text-format frame timestamps, file order (ticks of 0.1 ms)
    annotations,    \* data_time of the loaded annotations, file order (ms)
    store,          \* ts (ms) of the rows of the sensor's TDengine table
    bad,            \* ts of the rows whose frame_data does not decode
    tz,             \* UTC offset of the local time zone (ms)
    cache_frames,   \* ThermalAnnotationDataset.cache_frames
    frame_cache,    \* ThermalAnnotationDataset.frame_cache: data_time -> frame
    owner,          \* the class whose category registry is looked at
    category_to_id, \* "category/subcategory" -> id
    id_to_category, \* id -> "category/subcategory"
    next_id,        \* the id the next new category gets
    first_seen,     \* history: the (category, subcategory) pairs registered
                    \* so far, each once, in the order they first came
    wire,           \* a frame_data payload as it comes from the table, with
                    \* what zlib makes of its bytes, and the row's width, height
    call,           \* the operation last called, with its arguments
    ret,            \* what that call returned
    run,            \* an export run: the exporter, its arguments, the loaded
                    \* frames, and what the environment does to it
    pc,             \* the statement the export run is at
    loop_idx,       \* the loop variable of the export run
    norm,           \* the (vmin, vmax) pair the run holds, once computed
    writer,         \* the cv2.VideoWriter of the run
    trace,          \* history: what the run did to frames and sink, in order
    annotation_file,\* the parsed lines of an annotation file, whole records:
                    \* data_time, data_id and the objects, in file order
    temperature,    \* a temperature array handed to convert_temperature:
                    \* its values, its dtype and its unit
    output_dir      \* YOLOExporter.output_dir: the files under it

inputVars == <<text_file, scene, timestamps, annotations>>
exportVars == <<run, pc, loop_idx, norm, writer, trace>>
storeVars == <<store, bad, tz>>
cacheVars == <<cache_frames, frame_cache>>
regVars == <<owner, category_to_id, id_to_category, next_id, first_seen>>
codecVars == <<wire>>
sampleVars == <<annotation_file, temperature, output_dir>>
vars == <<text_file, scene, timestamps, annotations, store, bad, tz, cache_frames, frame_cache,
          owner, category_to_id, id_to_category, next_id, first_seen, wire,
          call, ret, run, pc, loop_idx, norm, writer, trace,
          annotation_file, temperature, output_dir>>

\* ------------------------------------------------------------ helpers
Abs(x) == IF x < 0 THEN -x ELSE x

Range(s) == {s[i] : i \in 1..Len(s)}

SeqsUpTo(S, n) == UNION {[1..k -> S] : k \in 0..n}

\* The frame timestamps a text file may hold (ticks of 0.1 ms):
\* 4850 ms, 4920 ms, 5080 ms and 5099.9 ms.
FramePool == {48500, 49200, 50800, 50999}

\* The data_time values an annotation file may hold (ms).
AnnPool == {4840, 5000, 5020}

\* The tolerance_ms arguments a caller passes to match_frame_to_annotation.
TolerancePool == {80, DefaultToleranceMs}

\* int(frame_timestamp * 1000): seconds to whole milliseconds, truncating.
FrameMs(frame_timestamp) == (frame_timestamp * 1000) \div 10000

\* None, and a returned index (0-based, as in the source).
None == [found |-> FALSE, idx |-> -1]
Some(i) == [found |-> TRUE, idx |-> i]

\* ------------------------------------------------ single-match scan
\* The loop shared by the three single-match operations: candidates are
\* visited in iteration order, and a candidate replaces the best one only
\* when its diff is strictly smaller.  state = <<best, min_diff, finite>>,
\* finite = FALSE standing for min_diff = float('inf').
ScanStepLastTie(state, i, diff) ==
    IF ~state[3] \/ diff <= state[2] THEN <<i, diff, TRUE>> ELSE state

ScanStepStrict(state, i, diff) ==
    IF ~state[3] \/ diff < state[2] THEN <<i, diff, TRUE>> ELSE state

RECURSIVE ScanFrom(_, _, _, _)
ScanFrom(cands, query, i, state) ==
    IF i > Len(cands) THEN state
    ELSE ScanFrom(cands, query, i + 1,
                  ScanStepStrict(state, i - 1, Abs(cands[i] - query)))

ClosestScan(cands, query) == ScanFrom(cands, query, 1, <<-1, 0, FALSE>>)

AcceptWithinInclusive(state, tolerance) ==
    IF state[3] /\ state[2] <= tolerance THEN Some(state[1]) ELSE None

\* "if min_diff < tolerance: return best"
AcceptWithin(state, tolerance) ==
    IF state[3] /\ state[2] < tolerance THEN Some(state[1]) ELSE None

\* ------------------------------------------- single-match operations
\* YOLOExporter._find_frame_by_timestamp: the candidates are the frames,
\* each converted to whole milliseconds; the result is a frame index.
FrameMsSeq(ts) == [i \in 1..Len(ts) |-> FrameMs(ts[i])]

FindFrameByTimestamp(ts, annotation_timestamp_ms) ==
    AcceptWithin(ClosestScan(FrameMsSeq(ts), annotation_timestamp_ms),
                 DefaultToleranceMs)

\* AnnotationLoader.match_frame_to_annotation: the candidates are the
\* annotations, the query is the frame at frame_idx converted to whole
\* milliseconds; the result is (the position of) an annotation.
MatchFrameToAnnotation(anns, frame_idx, ts, tolerance_ms) ==
    IF frame_idx >= Len(ts) THEN None
    ELSE AcceptWithin(ClosestScan(anns, FrameMs(ts[frame_idx + 1])), tolerance_ms)

\* AnnotationVisualizer._match_frame_to_annotation (visualize_annotations.py):
\* the same scan with the tolerance hard-coded.
VisMatchFrameToAnnotation(anns, frame_idx, ts) ==
    IF frame_idx >= Len(ts) THEN None
    ELSE AcceptWithin(ClosestScan(anns, FrameMs(ts[frame_idx + 1])),
                      DefaultToleranceMs)

NoCall == [op |-> "none", query |-> 0, tolerance |-> 0, inRange |-> FALSE]

\* The parts of the state an operation under study does not read.
NoStore == store = {} /\ bad = {} /\ tz = 0
NoCache == cache_frames = FALSE /\ frame_cache = << >>
NoWire == wire = [encoded_data |-> << >>, inflated |-> [ok |-> FALSE, bytes |-> << >>],
                  width |-> 0, height |-> 0]
NoText == text_file = [lines |-> << >>, height |-> 0, width |-> 0]
NoScene == scene = [kind |-> "none"]
NoExport ==
    /\ run = [kind |-> "none"]
    /\ pc = "idle"
    /\ loop_idx = 0
    /\ norm = [set |-> FALSE]
    /\ writer = "none"
    /\ trace = << >>
NoOutput == [labels |-> << >>, classes |-> << >>, info |-> << >>, written |-> << >>]
NoSample ==
    /\ annotation_file = << >>
    /\ temperature = [kind |-> "none"]
    /\ output_dir = NoOutput
NoRegistry ==
    /\ owner = "none"
    /\ category_to_id = << >>
    /\ id_to_category = << >>
    /\ next_id = 0
    /\ first_seen = << >>

MatchInit ==
    /\ NoStore /\ NoCache /\ NoRegistry /\ NoWire /\ NoExport /\ NoText /\ NoScene /\ NoSample
    /\ timestamps \in SeqsUpTo(FramePool, MaxFrames)
    /\ annotations \in SeqsUpTo(AnnPool, MaxAnnotations)
    /\ call = NoCall
    /\ ret = None

\* export_annotations looks up the frame of one annotation.
CallFindFrame ==
    \E a \in 1..Len(annotations) :
        /\ call' = [op |-> "find_frame", query |-> annotations[a],
                         tolerance |-> DefaultToleranceMs, inRange |-> TRUE]
        /\ ret' = FindFrameByTimestamp(timestamps, annotations[a])
        /\ UNCHANGED <<inputVars, storeVars, cacheVars, regVars, codecVars, sampleVars, exportVars>>

\* The video exporter looks up the annotation of one frame index.
CallLoaderMatch ==
    \E frame_idx \in 0..Len(timestamps), tolerance_ms \in TolerancePool :
        /\ call' = [op |-> "loader_match",
                         query |-> IF frame_idx < Len(timestamps)
                                   THEN FrameMs(timestamps[frame_idx + 1]) ELSE 0,
                         tolerance |-> tolerance_ms,
                         inRange |-> frame_idx < Len(timestamps)]
        /\ ret' = MatchFrameToAnnotation(annotations, frame_idx,
                                                 timestamps, tolerance_ms)
        /\ UNCHANGED <<inputVars, storeVars, cacheVars, regVars, codecVars, sampleVars, exportVars>>

\* visualize_frame looks up the annotation of one frame index.
CallVisMatch ==
    \E frame_idx \in 0..Len(timestamps) :
        /\ call' = [op |-> "vis_match",
                         query |-> IF frame_idx < Len(timestamps)
                                   THEN FrameMs(timestamps[frame_idx + 1]) ELSE 0,
                         tolerance |-> DefaultToleranceMs,
                         inRange |-> frame_idx < Len(timestamps)]
        /\ ret' = VisMatchFrameToAnnotation(annotations, frame_idx, timestamps)
        /\ UNCHANGED <<inputVars, storeVars, cacheVars, regVars, codecVars, sampleVars, exportVars>>

MatchNext == CallFindFrame \/ CallLoaderMatch \/ CallVisMatch

\* The single-match operations over every small frame file and annotation file.
SpecMatch == MatchInit /\ [][MatchNext]_vars

\* =================================================== TDengine retrieval
\* The rows a sensor table may hold (ts in ms; ts is the table's key).
StorePool == {4920, 5000, 5020}

\* The local UTC offsets the process may run under (ms): UTC, and UTC+1.
TzPool == {0, 3600000}

\* What the REST call may come back with.
NetPool == {"ok", "http_error", "query_failed"}

Min(S) == CHOOSE m \in S : \A x \in S : m <= x
Max(S) == CHOOSE m \in S : \A x \in S : m >= x

\* ORDER BY ts ASC
RECURSIVE SortedRows(_)
SortedRows(S) ==
    IF S = {} THEN << >> ELSE <<Min(S)>> \o SortedRows(S \ {Min(S)})

\* WHERE ts >= start AND ts <= end; the window's ends are whole milliseconds
\* (strftime to microseconds, cut to three decimals).
RowsInWindow(rows, start_ms, end_ms) == {r \in rows : r >= start_ms /\ r <= end_ms}

\* A decoded frame is known by the row it was decoded from; the placeholder
\* np.zeros((40, 60)) and the absence of a frame are apart from every row.
Frame(row) == [kind |-> "frame", ts |-> row]
Zeros == [kind |-> "zeros", ts |-> 0]
\* a zero-filled frame where no frame should be
ZeroFilled == [kind |-> "zeros", ts |-> 0]
NoFrame == [kind |-> "none", ts |-> 0]

\* The row "ORDER BY ts ASC LIMIT 1" yields.
FirstRowOf(rows) == Min(rows)

\* TDengineConnector.query_frame_by_timestamp
QueryFrameByTimestamp(rows, undecodable, timestamp_ms, tolerance_ms, net) ==
    LET hits == RowsInWindow(rows, timestamp_ms - tolerance_ms,
                             timestamp_ms + tolerance_ms)
    IN  IF net # "ok" THEN NoFrame
        ELSE IF hits = {} THEN NoFrame
        ELSE IF FirstRowOf(hits) \in undecodable THEN NoFrame
        ELSE Frame(FirstRowOf(hits))

\* frame_ts_str[:23] parsed by strptime into a naive datetime, whose
\* timestamp() reads it as local time: the row's UTC ts shifted by the offset.
RowTsMs(row, offset) == row - offset

\* A Python dict as a function; d[k] = v.
Put(d, k, v) == [x \in (DOMAIN d) \cup {k} |-> IF x = k THEN v ELSE d[x]]

\* the dict replaced by the other one
ReplaceBy(d, e) == e

\* dict.update
Update(d, e) == [x \in (DOMAIN d) \cup (DOMAIN e) |-> IF x \in DOMAIN e THEN e[x] ELSE d[x]]

\* "abs(frame_ts_ms - target_ts) <= tolerance_ms"
BatchWithin(frame_ts_ms, target_ts, tolerance_ms) ==
    Abs(frame_ts_ms - target_ts) <= tolerance_ms

\* The inner loop of batch_query_frames: the position of the first requested
\* timestamp the row is within tolerance of (0: none).
FirstTargetWithin(timestamps_ms, frame_ts_ms, tolerance_ms) ==
    LET js == {j \in 1..Len(timestamps_ms) :
                   BatchWithin(frame_ts_ms, timestamps_ms[j], tolerance_ms)}
    IN  IF js = {} THEN 0 ELSE Min(js)

\* The outer loop of batch_query_frames over the rows the query returned.
\* acc.frames is the dict built so far, acc.log the assignments made
\* (row ts, position of the target) in the order they were made, and
\* acc.aborted is set when a payload fails to decode: the exception leaves
\* the loop and the dict built so far is returned.
RECURSIVE BatchLoop(_, _, _, _, _, _, _)
BatchLoop(data, i, timestamps_ms, tolerance_ms, offset, undecodable, acc) ==
    IF i > Len(data) THEN acc
    ELSE LET j == FirstTargetWithin(timestamps_ms, RowTsMs(data[i], offset),
                                    tolerance_ms)
         IN  IF j = 0
             THEN BatchLoop(data, i + 1, timestamps_ms, tolerance_ms, offset,
                            undecodable, acc)
             ELSE IF data[i] \in undecodable
             THEN [acc EXCEPT !.aborted = TRUE]
             ELSE BatchLoop(data, i + 1, timestamps_ms, tolerance_ms, offset,
                            undecodable,
                            [acc EXCEPT !.frames = Put(@, timestamps_ms[j], Frame(data[i])),
                                        !.log = Append(@, <<data[i], j>>)])

\* TDengineConnector.batch_query_frames; timestamps_ms is not empty
\* (min() of an empty list raises before the query is sent).
BatchQueryFrames(rows, undecodable, timestamps_ms, tolerance_ms, net, offset) ==
    LET min_ts == Min(Range(timestamps_ms)) - tolerance_ms
        max_ts == Max(Range(timestamps_ms)) + tolerance_ms
        data == SortedRows(RowsInWindow(rows, min_ts, max_ts))
        empty == [frames |-> << >>, log |-> << >>, aborted |-> FALSE]
    IN  IF net # "ok" THEN empty
        ELSE BatchLoop(data, 1, timestamps_ms, tolerance_ms, offset, undecodable, empty)

\* ------------------------------------------- ThermalAnnotationDataset
\* a lookup that never finds the key
NeverCached(enabled, cache, data_time_ms) == FALSE

\* "if self.cache_frames and data_time_ms in self.frame_cache"
CacheHit(enabled, cache, data_time_ms) == enabled /\ data_time_ms \in DOMAIN cache

\* __getitem__(idx), as far as the frame goes: the cached frame if there is
\* one, else the frame query_frame_by_timestamp returns, the all-zero
\* placeholder standing in for None, with a warning logged; the frame is
\* cached when caching is on.  ret.queries counts the calls of
\* query_frame_by_timestamp made, ret.warned tells whether "using zeros"
\* was logged.
GetItem ==
    \E idx \in 0..(Len(annotations) - 1), net \in NetPool :
        LET data_time_ms == annotations[idx + 1]
            hit == CacheHit(cache_frames, frame_cache, data_time_ms)
            fetched == IF hit THEN NoFrame
                       ELSE QueryFrameByTimestamp(store, bad, data_time_ms,
                                                  DefaultToleranceMs, net)
            is_none == ~hit /\ fetched.kind = "none"
            frame == IF hit THEN frame_cache[data_time_ms]
                     ELSE IF is_none THEN Zeros ELSE fetched
        IN  /\ frame_cache' = IF ~hit /\ cache_frames
                              THEN Put(frame_cache, data_time_ms, frame)
                              ELSE frame_cache
            /\ call' = [op |-> "getitem", query |-> data_time_ms,
                        tolerance |-> DefaultToleranceMs, inRange |-> TRUE,
                        hit |-> hit]
            /\ ret' = [frame |-> frame, fetched |-> fetched,
                       queries |-> IF hit THEN 0 ELSE 1, warned |-> is_none]
            /\ UNCHANGED <<inputVars, storeVars, cache_frames, regVars, codecVars, sampleVars, exportVars>>

\* prefetch_all_frames: one batch query for all annotation timestamps, its
\* result merged into the cache.  Nothing happens with caching off; with no
\* annotation min() raises and nothing is changed.
PrefetchAllFrames ==
    \E net \in NetPool :
        LET got == BatchQueryFrames(store, bad, annotations, DefaultToleranceMs, net, tz)
        IN  /\ cache_frames
            /\ annotations # << >>
            /\ frame_cache' = Update(frame_cache, got.frames)
            /\ call' = [op |-> "prefetch", query |-> 0,
                        tolerance |-> DefaultToleranceMs, inRange |-> TRUE,
                        hit |-> FALSE]
            /\ ret' = got
            /\ UNCHANGED <<inputVars, storeVars, cache_frames, regVars, codecVars, sampleVars, exportVars>>

\* A direct call of query_frame_by_timestamp.
CallQueryFrame ==
    \E timestamp_ms \in AnnPool, net \in NetPool :
        /\ call' = [op |-> "query_frame", query |-> timestamp_ms,
                    tolerance |-> DefaultToleranceMs, inRange |-> TRUE,
                    hit |-> FALSE]
        /\ ret' = [frame |-> QueryFrameByTimestamp(store, bad, timestamp_ms,
                                                   DefaultToleranceMs, net),
                   fetched |-> QueryFrameByTimestamp(store, bad, timestamp_ms,
                                                     DefaultToleranceMs, net)]
        /\ UNCHANGED <<inputVars, storeVars, cacheVars, regVars, codecVars, sampleVars, exportVars>>

\* A direct call of batch_query_frames for the loaded annotations.
CallBatchQuery ==
    \E net \in NetPool :
        /\ annotations # << >>
        /\ call' = [op |-> "batch_query", query |-> 0,
                    tolerance |-> DefaultToleranceMs, inRange |-> TRUE,
                    hit |-> FALSE]
        /\ ret' = BatchQueryFrames(store, bad, annotations, DefaultToleranceMs, net, tz)
        /\ UNCHANGED <<inputVars, storeVars, cacheVars, regVars, codecVars, sampleVars, exportVars>>

StoreInit ==
    /\ store \in SUBSET StorePool
    /\ bad \in SUBSET store
    /\ tz \in TzPool

DatasetInit ==
    /\ timestamps = << >>
    /\ annotations \in SeqsUpTo(AnnPool, MaxAnnotations)
    /\ StoreInit
    /\ cache_frames \in BOOLEAN
    /\ frame_cache = << >>
    /\ NoRegistry /\ NoWire /\ NoExport /\ NoText /\ NoScene /\ NoSample
    /\ call = NoCall
    /\ ret = None

DatasetNext == GetItem \/ PrefetchAllFrames \/ CallQueryFrame

\* A dataset over every small annotation file and table content.
SpecDataset == DatasetInit /\ [][DatasetNext]_vars

\* ------------------------------------- TrainingDataPipeline.verify_match
\* The t: values the thermal file of verify_match may hold (ticks of 0.1 ms):
\* 4.92 s, 5.0999 s and 5.12 s.
ThermalPool == {49200, 50999, 51200}

\* The pairs (thermal_ts, data_time) of the pools that are exactly 0.1 s apart
\* and whose difference in binary floating point comes out below 0.1:
\* abs(4.92 - 5.02) = 0.09999999999999964, abs(5.12 - 5.02) = 0.10000000000000053.
FloatDiffBelowTenth == {<<49200, 5020>>}

\* "abs(thermal_ts - ann_ts) < 0.1", ann_ts = data_time / 1000.0
WithinTenthSecond(thermal_ts, data_time) ==
    LET d == Abs(thermal_ts - data_time * 10)
    IN  d < 1000 \/ (d = 1000 /\ <<thermal_ts, data_time>> \in FloatDiffBelowTenth)

\* The inner loop of verify_match: the position of the first thermal
\* timestamp within 0.1 s of the annotation (0: none).
FirstThermalWithin(thermal_timestamps, data_time) ==
    LET js == {j \in 1..Len(thermal_timestamps) :
                   WithinTenthSecond(thermal_timestamps[j], data_time)}
    IN  IF js = {} THEN 0 ELSE Min(js)

\* The outer loop of verify_match.  acc.log lists (annotation position,
\* thermal position) for every annotation that found a frame.
RECURSIVE VerifyLoop(_, _, _, _)
VerifyLoop(thermal_timestamps, anns, idx, acc) ==
    IF idx >= Len(anns) THEN acc
    ELSE LET j == FirstThermalWithin(thermal_timestamps, anns[idx + 1])
         IN  VerifyLoop(thermal_timestamps, anns, idx + 1,
                 IF j # 0
                 THEN [acc EXCEPT !.matched = @ + 1,
                                  !.log = Append(@, <<idx + 1, j>>)]
                 ELSE [acc EXCEPT !.unmatched_indices = Append(@, idx)])

VerifyMatch(thermal_timestamps, anns) ==
    LET acc == VerifyLoop(thermal_timestamps, anns, 0,
                          [matched |-> 0, unmatched_indices |-> << >>, log |-> << >>])
    IN  [total_frames |-> Len(thermal_timestamps),
         total_annotations |-> Len(anns),
         matched |-> acc.matched,
         unmatched |-> Len(acc.unmatched_indices),
         unmatched_indices |-> acc.unmatched_indices,
         log |-> acc.log]

CallVerifyMatch ==
    /\ call' = [op |-> "verify_match", query |-> 0, tolerance |-> DefaultToleranceMs,
                inRange |-> TRUE, hit |-> FALSE]
    /\ ret' = VerifyMatch(timestamps, annotations)
    /\ UNCHANGED <<inputVars, storeVars, cacheVars, regVars, codecVars, sampleVars, exportVars>>

\* The batch operations: verify_match over every small thermal file, and
\* batch_query_frames over every table content, each with every small
\* annotation file.
BatchInit ==
    /\ annotations \in SeqsUpTo(AnnPool, MaxAnnotations)
    /\ \/ timestamps \in SeqsUpTo(ThermalPool, MaxFrames) /\ NoStore
       \/ timestamps = << >> /\ StoreInit
    /\ NoCache /\ NoRegistry /\ NoWire /\ NoExport /\ NoText /\ NoScene /\ NoSample
    /\ call = NoCall
    /\ ret = None

BatchNext == CallBatchQuery \/ CallVerifyMatch

SpecBatch == BatchInit /\ [][BatchNext]_vars

\* =================================================== category registries
MaxObjects == 1

\* The (category, subcategory) pairs an annotation object may carry.
PairPool == {<<"person", "standing">>, <<"person", "sitting">>,
             <<"object", "chair/office">>, <<"object/chair", "office">>}

\* One line of an annotation file: data_time and the objects' pairs.
RecordPool == {[data_time |-> 5000, annotations |-> objs] :
                   objs \in SeqsUpTo(PairPool, MaxObjects)}

\* The annotation files: the parsed lines, in file order.
FilePool == SeqsUpTo(RecordPool, MaxAnnotations)

\* f"{category}/{subcategory}"
FullCategory(category, subcategory) == category \o "/" \o subcategory

EmptyRegistry == [category_to_id |-> << >>, id_to_category |-> << >>, next_id |-> 0]

\* a registration that does not look the key up first
RegisterNoCheck(reg, category, subcategory) ==
    [category_to_id |-> Put(reg.category_to_id, FullCategory(category, subcategory),
                            reg.next_id),
     id_to_category |-> Put(reg.id_to_category, reg.next_id,
                            FullCategory(category, subcategory)),
     next_id |-> reg.next_id + 1]

\* _register_category / get_category_id (exporter, converter), on the
\* registry reg: a key not seen before gets next_id, in both directions.
Register(reg, category, subcategory) ==
    LET full_category == FullCategory(category, subcategory)
    IN  IF full_category \notin DOMAIN reg.category_to_id
        THEN [category_to_id |-> Put(reg.category_to_id, full_category, reg.next_id),
              id_to_category |-> Put(reg.id_to_category, reg.next_id, full_category),
              next_id |-> reg.next_id + 1]
        ELSE reg

\* the id the call returns, read from the registry after it
RegisteredId(reg, category, subcategory) ==
    reg.category_to_id[FullCategory(category, subcategory)]

\* The objects' pairs of a file, in the order load visits them.
RECURSIVE PairsOf(_)
PairsOf(file) ==
    IF file = << >> THEN << >>
    ELSE Head(file).annotations \o PairsOf(Tail(file))

RECURSIVE RegisterAll(_, _)
RegisterAll(reg, pairs) ==
    IF pairs = << >> THEN reg
    ELSE RegisterAll(Register(reg, Head(pairs)[1], Head(pairs)[2]), Tail(pairs))

\* a loop step that numbers the reverse direction from 1
BuildStepShifted(reg, category, subcategory) ==
    IF FullCategory(category, subcategory) \notin DOMAIN reg.category_to_id
    THEN [category_to_id |-> Put(reg.category_to_id,
                                 FullCategory(category, subcategory), reg.next_id),
          id_to_category |-> Put(reg.id_to_category, reg.next_id + 1,
                                 FullCategory(category, subcategory)),
          next_id |-> reg.next_id + 1]
    ELSE reg

\* ThermalAnnotationDataset._build_category_mapping: one step of its loop,
\* and the loop over all objects of all annotations, next_id starting at 0.
BuildStep(reg, category, subcategory) ==
    LET full_category == FullCategory(category, subcategory)
    IN  IF full_category \notin DOMAIN reg.category_to_id
        THEN [category_to_id |-> Put(reg.category_to_id, full_category, reg.next_id),
              id_to_category |-> Put(reg.id_to_category, reg.next_id, full_category),
              next_id |-> reg.next_id + 1]
        ELSE reg

RECURSIVE BuildLoop(_, _)
BuildLoop(reg, pairs) ==
    IF pairs = << >> THEN reg
    ELSE BuildLoop(BuildStep(reg, Head(pairs)[1], Head(pairs)[2]), Tail(pairs))

BuildCategoryMapping(file) == BuildLoop(EmptyRegistry, PairsOf(file))

\* history: pairs appended to first_seen, each pair once
RECURSIVE SeenAfter(_, _)
SeenAfter(seen, pairs) ==
    IF pairs = << >> THEN seen
    ELSE SeenAfter(IF Head(pairs) \in Range(seen) THEN seen ELSE Append(seen, Head(pairs)),
                   Tail(pairs))

Registry == [category_to_id |-> category_to_id, id_to_category |-> id_to_category,
             next_id |-> next_id]

SetRegistry(reg) ==
    /\ category_to_id' = reg.category_to_id
    /\ id_to_category' = reg.id_to_category
    /\ next_id' = reg.next_id

DataTimes(file) == [i \in 1..Len(file) |-> file[i].data_time]

\* a load that starts from an empty registry, as it does for the annotations
LoaderLoadResets ==
    \E file \in FilePool :
        /\ owner = "loader"
        /\ annotations' = DataTimes(file)
        /\ SetRegistry(RegisterAll(EmptyRegistry, PairsOf(file)))
        /\ first_seen' = SeenAfter(first_seen, PairsOf(file))
        /\ call' = [op |-> "load", sizeBefore |-> Cardinality(DOMAIN category_to_id)]
        /\ ret' = DataTimes(file)
        /\ UNCHANGED <<text_file, scene, timestamps, storeVars, cacheVars, owner, codecVars, sampleVars, exportVars>>

\* AnnotationLoader.load: the annotation list is replaced, the categories of
\* every object are registered in file order; the registry is kept.
LoaderLoad ==
    \E file \in FilePool :
        /\ owner = "loader"
        /\ annotations' = DataTimes(file)
        /\ SetRegistry(RegisterAll(Registry, PairsOf(file)))
        /\ first_seen' = SeenAfter(first_seen, PairsOf(file))
        /\ call' = [op |-> "load", sizeBefore |-> Cardinality(DOMAIN category_to_id)]
        /\ ret' = DataTimes(file)
        /\ UNCHANGED <<text_file, scene, timestamps, storeVars, cacheVars, owner, codecVars, sampleVars, exportVars>>

\* One call of the registering operation of a class.
RegisterCall(class, opname) ==
    \E pair \in PairPool :
        /\ owner = class
        /\ SetRegistry(Register(Registry, pair[1], pair[2]))
        /\ first_seen' = SeenAfter(first_seen, <<pair>>)
        /\ call' = [op |-> opname, pair |-> pair,
                    sizeBefore |-> Cardinality(DOMAIN category_to_id)]
        /\ ret' = RegisteredId(Register(Registry, pair[1], pair[2]), pair[1], pair[2])
        /\ UNCHANGED <<inputVars, storeVars, cacheVars, owner, codecVars, sampleVars, exportVars>>

LoaderRegisterCategory == RegisterCall("loader", "register")
ExporterGetCategoryId == RegisterCall("exporter", "register")
ConverterGetCategoryId == RegisterCall("converter", "register")

\* AnnotationLoader.get_category_id: a lookup, -1 for an unknown key.
LoaderGetCategoryId ==
    \E pair \in PairPool :
        /\ owner = "loader"
        /\ call' = [op |-> "lookup", pair |-> pair,
                    sizeBefore |-> Cardinality(DOMAIN category_to_id)]
        /\ ret' = IF FullCategory(pair[1], pair[2]) \in DOMAIN category_to_id
                  THEN category_to_id[FullCategory(pair[1], pair[2])] ELSE -1
        /\ UNCHANGED <<inputVars, storeVars, cacheVars, regVars, codecVars, sampleVars, exportVars>>

\* ThermalAnnotationDataset.get_category_name: 'unknown' for an unknown id.
DatasetGetCategoryName ==
    \E label_id \in 0..Cardinality(PairPool) :
        /\ owner = "dataset"
        /\ call' = [op |-> "name_of", label_id |-> label_id,
                    sizeBefore |-> Cardinality(DOMAIN category_to_id)]
        /\ ret' = IF label_id \in DOMAIN id_to_category
                  THEN id_to_category[label_id] ELSE "unknown"
        /\ UNCHANGED <<inputVars, storeVars, cacheVars, regVars, codecVars, sampleVars, exportVars>>

\* After construction: the loader, the exporter and the converter hold an
\* empty registry; the dataset holds the mapping built from its file.
RegistryInit ==
    /\ timestamps = << >>
    /\ NoStore /\ NoCache /\ NoWire /\ NoExport /\ NoText /\ NoScene /\ NoSample
    /\ call = NoCall
    /\ ret = None
    /\ \/ /\ owner \in {"loader", "exporter", "converter"}
          /\ annotations = << >>
          /\ category_to_id = << >> /\ id_to_category = << >> /\ next_id = 0
          /\ first_seen = << >>
       \/ \E file \in FilePool :
          /\ owner = "dataset"
          /\ annotations = DataTimes(file)
          /\ category_to_id = BuildCategoryMapping(file).category_to_id
          /\ id_to_category = BuildCategoryMapping(file).id_to_category
          /\ next_id = BuildCategoryMapping(file).next_id
          /\ first_seen = SeenAfter(<< >>, PairsOf(file))

RegistryNext ==
    \/ LoaderLoad
    \/ LoaderRegisterCategory
    \/ LoaderGetCategoryId
    \/ ExporterGetCategoryId
    \/ ConverterGetCategoryId
    \/ DatasetGetCategoryName

SpecRegistry == RegistryInit /\ [][RegistryNext]_vars

\* ========================================== TDengineConnector._decompress_frame_data
MaxEncodedLen == 4
MaxWidth == 3
MaxHeight == 2

\* The characters an encoded payload is made of here: three hex digits, a
\* base64 letter that is no hex digit, the base64 pad, and a character of
\* neither alphabet.
CharPool == {"0", "a", "F", "g", "=", "-"}

\* '0123456789abcdefABCDEF'
HexDigits == <<"0", "1", "2", "3", "4", "5", "6", "7", "8", "9",
               "a", "b", "c", "d", "e", "f", "A", "B", "C", "D", "E", "F">>

HexValue(c) ==
    LET i == CHOOSE k \in 1..Len(HexDigits) : HexDigits[k] = c
    IN  IF i <= 16 THEN i - 1 ELSE i - 7

\* a check that knows the lower-case digits only
AllHexLowerOnly(encoded_data) ==
    \A i \in 1..Len(encoded_data) :
        \E k \in 1..16 : HexDigits[k] = encoded_data[i]

\* all(c in '0123456789abcdefABCDEF' for c in encoded_data)
AllHex(encoded_data) ==
    \A i \in 1..Len(encoded_data) : encoded_data[i] \in Range(HexDigits)

Failed == [ok |-> FALSE, bytes |-> << >>]
Bytes(b) == [ok |-> TRUE, bytes |-> b]

\* bytes.fromhex on a string of hex digits: two digits a byte, ValueError
\* when a digit is left over.
FromHex(encoded_data) ==
    IF Len(encoded_data) % 2 # 0 THEN Failed
    ELSE Bytes([i \in 1..(Len(encoded_data) \div 2) |->
                   16 * HexValue(encoded_data[2 * i - 1]) + HexValue(encoded_data[2 * i])])

\* The base64 alphabet, in the order of the values 0..63.
B64Alphabet == <<"A", "B", "C", "D", "E", "F", "G", "H", "I", "J", "K", "L", "M",
                 "N", "O", "P", "Q", "R", "S", "T", "U", "V", "W", "X", "Y", "Z",
                 "a", "b", "c", "d", "e", "f", "g", "h", "i", "j", "k", "l", "m",
                 "n", "o", "p", "q", "r", "s", "t", "u", "v", "w", "x", "y", "z",
                 "0", "1", "2", "3", "4", "5", "6", "7", "8", "9", "+", "/">>

B64Value(c) == (CHOOSE k \in 1..Len(B64Alphabet) : B64Alphabet[k] = c) - 1

\* base64.b64decode(s) (validate=False), as binascii.a2b_base64 goes through
\* the characters: characters outside the alphabet are skipped, a pad that
\* completes a quad ends the input, and data characters left over in an
\* unfinished quad are an error.
RECURSIVE A2bBase64(_, _, _, _, _, _)
A2bBase64(s, i, quad_pos, leftchar, pads, out) ==
    IF i > Len(s)
    THEN IF quad_pos # 0 THEN Failed ELSE Bytes(out)
    ELSE IF s[i] = "="
    THEN IF quad_pos >= 2
         THEN IF quad_pos + pads + 1 >= 4 THEN Bytes(out)
              ELSE A2bBase64(s, i + 1, quad_pos, leftchar, pads + 1, out)
         ELSE A2bBase64(s, i + 1, quad_pos, leftchar, pads, out)
    ELSE IF s[i] \notin Range(B64Alphabet)
    THEN A2bBase64(s, i + 1, quad_pos, leftchar, pads, out)
    ELSE LET v == B64Value(s[i])
         IN  CASE quad_pos = 0 -> A2bBase64(s, i + 1, 1, v, 0, out)
               [] quad_pos = 1 ->
                    A2bBase64(s, i + 1, 2, v % 16, 0,
                              Append(out, leftchar * 4 + (v \div 16)))
               [] quad_pos = 2 ->
                    A2bBase64(s, i + 1, 3, v % 4, 0,
                              Append(out, leftchar * 16 + (v \div 4)))
               [] OTHER ->
                    A2bBase64(s, i + 1, 0, 0, 0, Append(out, leftchar * 64 + v))

B64Decode(encoded_data) == A2bBase64(encoded_data, 1, 0, 0, 0, << >>)

\* The inner try/except of _decompress_frame_data.  tried lists the decoders
\* that were handed the string, in order; path names the one that gave the
\* bytes ("error": none did, the exception leaves the function).
DecodeEncoded(encoded_data) ==
    IF AllHex(encoded_data)
    THEN IF FromHex(encoded_data).ok
         THEN [tried |-> <<"hex">>, path |-> "hex", res |-> FromHex(encoded_data)]
         ELSE [tried |-> <<"hex", "base64">>,
               path |-> IF B64Decode(encoded_data).ok THEN "base64" ELSE "error",
               res |-> B64Decode(encoded_data)]
    ELSE IF B64Decode(encoded_data).ok
         THEN [tried |-> <<"base64">>, path |-> "base64", res |-> B64Decode(encoded_data)]
         ELSE [tried |-> <<"base64", "base64">>, path |-> "error", res |-> Failed]

\* struct.unpack 'h': element k (from 0) of the int16 payload, low byte
\* first, two's complement.
Int16At(decompressed, k) ==
    LET u == decompressed[2 * k + 1] + 256 * decompressed[2 * k + 2]
    IN  IF u >= 32768 THEN u - 65536 ELSE u

\* (val / 10.0) - 273.15, in hundredths of a degree Celsius.
DeciKelvinToCelsius(val) == [unit |-> "celsius", centi |-> val * 10 - 27315]

\* struct.unpack 'f': element k (from 0) of the float32 payload, the value
\* whose four bytes these are.
Float32At(decompressed, k) ==
    [unit |-> "celsius",
     float32 |-> <<decompressed[4 * k + 1], decompressed[4 * k + 2],
                   decompressed[4 * k + 3], decompressed[4 * k + 4]>>]

\* a size test that lets a longer payload through
SizeAtLeastInt16(decompressed, num_pixels) == Len(decompressed) >= num_pixels * 2

\* "len(decompressed) == num_pixels * 2" and "... * 4"
SizeIsInt16(decompressed, num_pixels) == Len(decompressed) = num_pixels * 2
SizeIsFloat32(decompressed, num_pixels) == Len(decompressed) = num_pixels * 4

\* frame_celsius.reshape(height, width), row-major
Reshape(flat, height, width) ==
    [r \in 1..height |-> [c \in 1..width |-> flat[(r - 1) * width + c]]]

\* the frame left as reshaped
NoFlip(frame) == frame

\* np.fliplr
FlipLr(frame) ==
    [r \in 1..Len(frame) |->
        [c \in 1..Len(frame[r]) |-> frame[r][Len(frame[r]) + 1 - c]]]

NoFrameData == [ok |-> FALSE, format |-> "none", frame |-> << >>]

\* From the decompressed bytes to the frame; ValueError for any other size.
UnpackFrame(decompressed, width, height) ==
    LET num_pixels == width * height
    IN  IF SizeIsInt16(decompressed, num_pixels)
        THEN [ok |-> TRUE, format |-> "int16",
              frame |-> FlipLr(Reshape(
                  [k \in 1..num_pixels |->
                      DeciKelvinToCelsius(Int16At(decompressed, k - 1))],
                  height, width))]
        ELSE IF SizeIsFloat32(decompressed, num_pixels)
        THEN [ok |-> TRUE, format |-> "float32",
              frame |-> FlipLr(Reshape(
                  [k \in 1..num_pixels |-> Float32At(decompressed, k - 1)],
                  height, width))]
        ELSE NoFrameData

\* _decompress_frame_data(encoded_data, width, height); inflated is what
\* zlib.decompress makes of the decoded bytes (an error, or the bytes).
DecompressFrameData(encoded_data, inflated, width, height) ==
    IF ~DecodeEncoded(encoded_data).res.ok THEN NoFrameData
    ELSE IF ~inflated.ok THEN NoFrameData
    ELSE UnpackFrame(inflated.bytes, width, height)

\* The decompressed contents looked at: runs of bytes start, start + step, ...
\* (mod 256), of every length up to one more than the largest frame needs.
ByteRun(start, step, n) == [i \in 1..n |-> (start + step * (i - 1)) % 256]

InflatedPool ==
    {Failed} \cup
    {Bytes(ByteRun(start, step, n)) :
        start \in {0, 250}, step \in {1, 37}, n \in 0..(MaxWidth * MaxHeight * 4 + 1)}

\* Every short encoded string with a payload that fits a 1 x 1 frame or does
\* not inflate; and two well-formed encoded strings (hex, base64) with every
\* decompressed content and every frame size.
CodecInit ==
    /\ timestamps = << >> /\ annotations = << >>
    /\ NoStore /\ NoCache /\ NoRegistry /\ NoExport /\ NoText /\ NoScene /\ NoSample
    /\ call = NoCall
    /\ ret = None
    /\ \/ /\ wire \in [encoded_data : SeqsUpTo(CharPool, MaxEncodedLen),
                       inflated : {Failed, Bytes(ByteRun(250, 1, 2))},
                       width : {1}, height : {1}]
       \/ /\ wire \in [encoded_data : {<<"a", "F">>, <<"g", "0", "a", "F">>},
                       inflated : InflatedPool,
                       width : 1..MaxWidth, height : 1..MaxHeight]

CallDecompressFrameData ==
    /\ call' = [op |-> "decompress",
                tried |-> DecodeEncoded(wire.encoded_data).tried,
                path |-> DecodeEncoded(wire.encoded_data).path]
    /\ ret' = DecompressFrameData(wire.encoded_data, wire.inflated,
                                  wire.width, wire.height)
    /\ UNCHANGED <<inputVars, storeVars, cacheVars, regVars, codecVars, sampleVars, exportVars>>

CodecNext == CallDecompressFrameData

SpecCodec == CodecInit /\ [][CodecNext]_vars

\* ------------------------------------------------------ claims C1, C2
IsMatchCall == call.op \in {"find_frame", "loader_match", "vis_match"} /\ call.inRange

\* The candidates the last single-match call scanned, in iteration order (ms).
Candidates == IF call.op = "find_frame" THEN FrameMsSeq(timestamps) ELSE annotations

Deltas == {Abs(Candidates[i] - call.query) : i \in 1..Len(Candidates)}

MinDelta == CHOOSE d \in Deltas : \A e \in Deltas : d <= e

\* C1: a single-match operation returns a candidate whose absolute delta to
\* the query is the minimum over all candidates when that minimum is below the
\* tolerance, and returns None when the minimum is at or above the tolerance
\* (or there is no candidate at all).
C1_ClosestWithinTolerance ==
    IsMatchCall =>
        IF Candidates # << >> /\ MinDelta < call.tolerance
        THEN /\ ret.found
             /\ ret.idx + 1 \in 1..Len(Candidates)
             /\ Abs(Candidates[ret.idx + 1] - call.query) = MinDelta
        ELSE ret = None

\* The boundary case of C1: the closest candidate is exactly the tolerance
\* away from the query, and the call returned None.
C1_Witness ==
    /\ IsMatchCall
    /\ Candidates # << >>
    /\ call.tolerance = DefaultToleranceMs
    /\ MinDelta = DefaultToleranceMs
    /\ ret = None

\* C2: when several candidates share the minimum delta, the one returned is
\* the first of them in iteration order.
C2_FirstOfTies ==
    (IsMatchCall /\ ret.found) =>
        \A j \in 1..ret.idx :
            Abs(Candidates[j] - call.query) # Abs(Candidates[ret.idx + 1] - call.query)

\* The scenario of the spec: annotation 5000 against frames 4850, 4920, 5080
\* selects index 1 (4920), though 5080 is as close.
C2_Witness ==
    /\ call.op = "find_frame"
    /\ call.query = 5000
    /\ timestamps = <<48500, 49200, 50800>>
    /\ ret = Some(1)

\* ------------------------------------------------------ claims C3, C4
\* C3: the frame query_frame_by_timestamp returns for a timestamp (directly,
\* or for __getitem__ on a cache miss) is the stored frame closest to it: no
\* stored frame is closer to the timestamp than the returned one.
C3_ReturnsClosestStoredFrame ==
    (call.op \in {"query_frame", "getitem"} /\ ret.fetched.kind = "frame") =>
        \A r \in store : Abs(r - call.query) >= Abs(ret.fetched.ts - call.query)

\* The batch call last made, as items, candidates and the within-tolerance
\* test between them: batch_query_frames walks the rows and looks for a
\* requested timestamp, verify_match walks the annotations and looks for a
\* thermal timestamp.
BatchIsWithin(item, cand) ==
    IF call.op = "batch_query"
    THEN BatchWithin(RowTsMs(item, tz), annotations[cand], call.tolerance)
    ELSE WithinTenthSecond(timestamps[cand], annotations[item])

BatchCandidates ==
    IF call.op = "batch_query" THEN 1..Len(annotations) ELSE 1..Len(timestamps)

ConsumedBefore(k) == {ret.log[m][2] : m \in 1..(k - 1)}

\* C4: in batch matching each item takes at most one counterpart, the one
\* taken is the first candidate within tolerance that no earlier item has
\* consumed, and no candidate is taken twice.
C4_FirstUnconsumedCandidate ==
    call.op \in {"batch_query", "verify_match"} =>
        /\ \A k, m \in 1..Len(ret.log) : ret.log[k][1] = ret.log[m][1] => k = m
        /\ \A k, m \in 1..Len(ret.log) : ret.log[k][2] = ret.log[m][2] => k = m
        /\ \A k \in 1..Len(ret.log) :
               LET free == {c \in BatchCandidates \ ConsumedBefore(k) :
                                BatchIsWithin(ret.log[k][1], c)}
               IN  free # {} /\ ret.log[k][2] = Min(free)

\* ------------------------------------------------ claims C5, C6, C7
PairKey(pair) == FullCategory(pair[1], pair[2])

\* C5 as stated, by pairs: the i-th distinct (category, subcategory) pair
\* registered holds the id i - 1, and a registering call returns the id of
\* its pair.
C5_PairsNumberedInOrder ==
    owner \in {"loader", "exporter", "converter"} =>
        /\ \A i \in 1..Len(first_seen) : category_to_id[PairKey(first_seen[i])] = i - 1
        /\ call.op = "register" => ret = category_to_id[PairKey(call.pair)]

\* The composite keys of the registered pairs, each once, in first-seen order.
RECURSIVE KeysInOrder(_, _)
KeysInOrder(pairs, keys) ==
    IF pairs = << >> THEN keys
    ELSE KeysInOrder(Tail(pairs),
                     IF PairKey(Head(pairs)) \in Range(keys) THEN keys
                     ELSE Append(keys, PairKey(Head(pairs))))

SeenKeys == KeysInOrder(first_seen, << >>)

\* C5 amended, by composite keys: the i-th distinct key "category/subcategory"
\* registered holds the id i - 1 (the size of the registry when it came), the
\* registry holds these keys and no other, and a registering call returns the
\* id its key was given when it first came; two pairs that make the same key
\* share one id.
C5_KeysNumberedInOrder ==
    owner \in {"loader", "exporter", "converter"} =>
        /\ DOMAIN category_to_id = Range(SeenKeys)
        /\ \A i \in 1..Len(SeenKeys) : category_to_id[SeenKeys[i]] = i - 1
        /\ next_id = Len(SeenKeys)
        /\ call.op = "register" =>
               \E i \in 1..Len(SeenKeys) :
                   SeenKeys[i] = PairKey(call.pair) /\ ret = i - 1

\* A pair is registered again after other keys came, two registered pairs
\* share a key, and a later key took the id 1.
C5_Witness ==
    /\ call.op = "register"
    /\ call.sizeBefore = 2
    /\ Len(first_seen) = 3
    /\ Len(SeenKeys) = 2
    /\ next_id = 2
    /\ ret = 0

\* C6: no step changes the id of a registered key, removes the key, or gives
\* its id to another key.
C6_IdsNeverReassigned ==
    [][\A k \in DOMAIN category_to_id :
           /\ k \in DOMAIN category_to_id'
           /\ category_to_id'[k] = category_to_id[k]
           /\ \A k2 \in DOMAIN category_to_id' :
                  category_to_id'[k2] = category_to_id[k] => k2 = k]_vars

\* A second load that met a filled registry and added a key to it.
C6_Witness ==
    /\ call.op = "load"
    /\ call.sizeBefore > 0
    /\ Cardinality(DOMAIN category_to_id) > call.sizeBefore

\* C7: the two directions of a registry are inverse of each other and hold
\* the same number of entries.
C7_DirectionsInverse ==
    /\ \A k \in DOMAIN category_to_id :
           /\ category_to_id[k] \in DOMAIN id_to_category
           /\ id_to_category[category_to_id[k]] = k
    /\ \A i \in DOMAIN id_to_category :
           /\ id_to_category[i] \in DOMAIN category_to_id
           /\ category_to_id[id_to_category[i]] = i
    /\ Cardinality(DOMAIN category_to_id) = Cardinality(DOMAIN id_to_category)

\* The dataset's mapping, built from a file with two distinct keys.
C7_Witness ==
    /\ owner = "dataset"
    /\ Cardinality(DOMAIN category_to_id) = 2
    /\ Cardinality(DOMAIN id_to_category) = 2

\* ------------------------------------------------ claims C8, C9, C10
NumPixels == wire.width * wire.height

SizeFits ==
    Len(wire.inflated.bytes) = NumPixels * 2 \/ Len(wire.inflated.bytes) = NumPixels * 4

\* C8: a payload whose decompressed length is neither width*height*2 nor
\* width*height*4 makes _decompress_frame_data fail, and no frame comes out.
C8_SizeMismatchFails ==
    (call.op = "decompress" /\ wire.inflated.ok /\ ~SizeFits) =>
        ~ret.ok /\ ret.frame = << >>

\* A payload that decodes and inflates to one byte more than a 2 x 1 int16
\* frame needs, refused.
C8_Witness ==
    /\ call.op = "decompress"
    /\ call.path = "hex"
    /\ wire.inflated.ok
    /\ wire.width = 2 /\ wire.height = 1
    /\ Len(wire.inflated.bytes) = NumPixels * 2 + 1
    /\ ~ret.ok

\* The decoded value of raw element k (from 0) of the decompressed payload.
RawElement(k) ==
    IF Len(wire.inflated.bytes) = NumPixels * 2
    THEN DeciKelvinToCelsius(Int16At(wire.inflated.bytes, k))
    ELSE Float32At(wire.inflated.bytes, k)

\* C9: a payload of width*height*2 or width*height*4 decompressed bytes gives
\* a frame of height rows of width elements, element [r][c] being raw element
\* r*width + (width-1-c).
C9_ShapeAndMirror ==
    (call.op = "decompress" /\ call.path # "error" /\ wire.inflated.ok /\ SizeFits) =>
        /\ ret.ok
        /\ Len(ret.frame) = wire.height
        /\ \A r \in 0..(wire.height - 1) :
               /\ Len(ret.frame[r + 1]) = wire.width
               /\ \A c \in 0..(wire.width - 1) :
                      ret.frame[r + 1][c + 1]
                          = RawElement(r * wire.width + (wire.width - 1 - c))

\* A 2 x 3 float32 frame whose rows are not palindromes.
C9_Witness ==
    /\ call.op = "decompress"
    /\ ret.ok
    /\ ret.format = "float32"
    /\ wire.width = 3 /\ wire.height = 2
    /\ ret.frame[1][1] # ret.frame[1][3]
    /\ ret.frame[1][1] = RawElement(2)

HexDigitSet == {"0", "1", "2", "3", "4", "5", "6", "7", "8", "9",
                "a", "b", "c", "d", "e", "f", "A", "B", "C", "D", "E", "F"}

OnlyHexDigits == \A i \in 1..Len(wire.encoded_data) : wire.encoded_data[i] \in HexDigitSet

\* C10 as stated: a string of hex digits only is handed to the hex decoder
\* and never to base64, any other string to base64 and never to the hex
\* decoder.
C10_HexExactlyWhenAllHex ==
    call.op = "decompress" =>
        IF OnlyHexDigits
        THEN call.tried = <<"hex">>
        ELSE Range(call.tried) = {"base64"}

\* C10 amended: a string of hex digits only and of even length is decoded as
\* hexadecimal and never handed to base64; a string of hex digits only and of
\* odd length is refused by the hex decoder and then handed to base64, which
\* refuses it too, so that no frame comes out; any other string is handed to
\* base64 only.
C10_HexWhenAllHexAndEven ==
    call.op = "decompress" =>
        /\ (OnlyHexDigits /\ Len(wire.encoded_data) % 2 = 0) =>
               call.tried = <<"hex">> /\ call.path = "hex"
        /\ (OnlyHexDigits /\ Len(wire.encoded_data) % 2 = 1) =>
               call.tried = <<"hex", "base64">> /\ call.path = "error" /\ ~ret.ok
        /\ ~OnlyHexDigits =>
               Range(call.tried) = {"base64"} /\ call.path \in {"base64", "error"}

\* Three hex digits: the hex decoder was tried, then base64, and both failed.
C10_Witness ==
    /\ call.op = "decompress"
    /\ wire.encoded_data = <<"a", "F", "0">>
    /\ call.tried = <<"hex", "base64">>
    /\ call.path = "error"

\* ------------------------------------------- text frame format (loader)
\* A text file is a sequence of lines; a line is held as a string and read
\* character by character.  Timestamps come out in ticks of 0.1 ms, like the
\* variable timestamps; temperatures in Kelvin are held in mK, so that
\* int(part) / 10.0 of the token 29315 is 2931500.
MaxLines == 3

\* The lines a file may hold: the text frame format (an optional t:<seconds>
\* token and five-digit deci-Kelvin tokens), with tokens that are too short,
\* too long or glued by a comma, a timestamp of five digits, and a blank line.
LinePool == {"t: 1.5 29315 29316 29317 29318",
             "t:2.25 29401 29402 29403",
             "t: 3.0 29500",
             "29601 29602 29603 29604 29605",
             "t:12345 2931 293155 29701,29702",
             "  "}

\* target_shape = (height, width)
TextShapePool == {<<1, 2>>, <<2, 2>>}

Chars(s) == [i \in 1..Len(s) |-> SubSeq(s, i, i)]

DigitChars == {"0", "1", "2", "3", "4", "5", "6", "7", "8", "9"}
SpaceChars == {" "}

DigitValue(c) ==
    CHOOSE d \in 0..9 : <<"0", "1", "2", "3", "4", "5", "6", "7", "8", "9">>[d + 1] = c

\* int(part) of a string of digits
RECURSIVE IntOf(_)
IntOf(part) ==
    IF part = << >> THEN 0
    ELSE 10 * IntOf(SubSeq(part, 1, Len(part) - 1)) + DigitValue(part[Len(part)])

\* line.strip()
RECURSIVE Strip(_)
Strip(line) ==
    IF line = << >> THEN line
    ELSE IF Head(line) \in SpaceChars THEN Strip(Tail(line))
    ELSE IF line[Len(line)] \in SpaceChars THEN Strip(SubSeq(line, 1, Len(line) - 1))
    ELSE line

\* The first position at or after i whose character is not in S.
RECURSIVE RunEnd(_, _, _)
RunEnd(line, i, S) ==
    IF i > Len(line) \/ line[i] \notin S THEN i ELSE RunEnd(line, i + 1, S)

\* Where the group ([\d.]+) of a match of t:\s*([\d.]+) that begins at p
\* starts and ends (end exclusive); no match when the group would be empty.
GroupOf(line, p) ==
    IF p + 1 > Len(line) \/ line[p] # "t" \/ line[p + 1] # ":"
    THEN [matched |-> FALSE, from |-> 0, to |-> 0]
    ELSE LET from == RunEnd(line, p + 2, SpaceChars)
             to == RunEnd(line, from, DigitChars \cup {"."})
         IN  [matched |-> to > from, from |-> from, to |-> to]

\* re.search(r't:\s*([\d.]+)', line): the leftmost match.
TimestampMatch(line) ==
    LET starts == {p \in 1..Len(line) : GroupOf(line, p).matched}
    IN  IF starts = {} THEN [matched |-> FALSE, from |-> 0, to |-> 0]
        ELSE GroupOf(line, CHOOSE p \in starts : \A q \in starts : p <= q)

\* re.sub(r't:\s*[\d.]+', '', line): every match is cut out, left to right.
RECURSIVE SubTimestamp(_, _)
SubTimestamp(line, p) ==
    IF p > Len(line) THEN << >>
    ELSE IF GroupOf(line, p).matched THEN SubTimestamp(line, GroupOf(line, p).to)
    ELSE <<line[p]>> \o SubTimestamp(line, p + 1)

NotAFloat == [ok |-> FALSE, ticks |-> 0]

\* float(text) of a string of digits and dots: ValueError when there are
\* two dots or no digit; otherwise seconds, here in ticks of 0.1 ms (the
\* fraction is read to four places).
ParseFloat(text) ==
    LET dots == {i \in 1..Len(text) : text[i] = "."}
    IN  IF Cardinality(dots) > 1 \/ Cardinality(dots) = Len(text) THEN NotAFloat
        ELSE LET dot == IF dots = {} THEN Len(text) + 1 ELSE CHOOSE i \in dots : TRUE
                 whole == SubSeq(text, 1, dot - 1)
                 frac == SubSeq(text, dot + 1, Len(text))
                 frac4 == [i \in 1..4 |-> IF i <= Len(frac) THEN frac[i] ELSE "0"]
             IN  [ok |-> TRUE, ticks |-> 10000 * IntOf(whole) + IntOf(frac4)]

\* re.sub(r'[^\d\s]', ' ', line)
CleanLine(line) ==
    [i \in 1..Len(line) |-> IF line[i] \in DigitChars \cup SpaceChars THEN line[i] ELSE " "]

\* clean_line.split()
RECURSIVE Split(_, _)
Split(line, i) ==
    LET from == RunEnd(line, i, SpaceChars)
        to == RunEnd(line, from, DigitChars)
    IN  IF from > Len(line) THEN << >>
        ELSE <<SubSeq(line, from, to - 1)>> \o Split(line, to)

\* len(part) == 5 and part.isdigit()
IsTemperatureToken(part) ==
    Len(part) = 5 /\ \A i \in 1..Len(part) : part[i] \in DigitChars

\* temp_k = int(part) / 10.0, in mK
TempK(part) == IntOf(part) * 100

\* temp_values of a line from which the timestamp is already cut
TempValues(line) ==
    LET parts == SelectSeq(Split(CleanLine(line), 1), IsTemperatureToken)
    IN  [i \in 1..Len(parts) |-> TempK(parts[i])]

MoreThanEnoughValues(temp_values, height, width) == Len(temp_values) > height * width

\* "if len(temp_values) >= self.height * self.width"
EnoughValues(temp_values, height, width) == Len(temp_values) >= height * width

\* One turn of the loop over lines[1:].  acc holds frames, timestamps, the
\* line_idx each frame was appended at, and whether float() raised.
ParseLine(acc, text, line_idx, height, width) ==
    LET line == Strip(Chars(text))
        timestamp_match == TimestampMatch(line)
        timestamp == ParseFloat(SubSeq(line, timestamp_match.from, timestamp_match.to - 1))
        rest == IF timestamp_match.matched THEN SubTimestamp(line, 1) ELSE line
        temp_values == TempValues(rest)
        stamped == IF timestamp_match.matched
                   THEN [acc EXCEPT !.timestamps = Append(@, timestamp.ticks)]
                   ELSE acc
    IN  IF acc.raised \/ line = << >> THEN acc
        ELSE IF timestamp_match.matched /\ ~timestamp.ok THEN [acc EXCEPT !.raised = TRUE]
        ELSE IF EnoughValues(temp_values, height, width)
        THEN [stamped EXCEPT
                 !.frames = Append(@, Reshape(SubSeq(temp_values, 1, height * width),
                                              height, width)),
                 !.line_of = Append(@, line_idx)]
        ELSE stamped

RECURSIVE ParseLines(_, _, _, _, _)
ParseLines(acc, lines, line_idx, height, width) ==
    IF line_idx >= Len(lines) THEN acc
    ELSE ParseLines(ParseLine(acc, lines[line_idx + 1], line_idx, height, width),
                    lines, line_idx + 1, height, width)

\* ThermalDataLoader.load_from_text_file: lines[0] is the header; the loop
\* runs over lines[1:] with line_idx from 1.
LoadFromTextFile(lines, height, width) ==
    ParseLines([frames |-> << >>, timestamps |-> << >>, line_of |-> << >>,
                raised |-> FALSE],
               lines, 1, height, width)

\* visualize_annotations.ThermalDataLoader.load: frames - 273.15, in mK
FramesCelsius(frames) ==
    [f \in 1..Len(frames) |->
        [r \in 1..Len(frames[f]) |->
            [c \in 1..Len(frames[f][r]) |-> frames[f][r][c] - 273150]]]

NoData == [found |-> FALSE, value |-> 0]

\* ThermalDataLoader.get_frame and get_timestamp (idx from 0)
GetFrame(frames_celsius, idx) ==
    IF idx >= Len(frames_celsius) THEN [found |-> FALSE, value |-> << >>]
    ELSE [found |-> TRUE, value |-> frames_celsius[idx + 1]]

GetTimestamp(loaded_timestamps, idx) ==
    IF idx >= Len(loaded_timestamps) THEN NoData
    ELSE [found |-> TRUE, value |-> loaded_timestamps[idx + 1]]

TextInit ==
    /\ NoStore /\ NoCache /\ NoRegistry /\ NoWire /\ NoExport /\ NoScene /\ NoSample
    /\ text_file \in [lines : SeqsUpTo(LinePool, MaxLines),
                      height : {shape[1] : shape \in TextShapePool},
                      width : {shape[2] : shape \in TextShapePool}]
    /\ <<text_file.height, text_file.width>> \in TextShapePool
    /\ timestamps = << >>
    /\ annotations = << >>
    /\ call = NoCall
    /\ ret = None

\* load_from_text_file on the file.
CallLoadFromTextFile ==
    /\ call' = [op |-> "load_text", lines |-> text_file.lines,
                height |-> text_file.height, width |-> text_file.width]
    /\ ret' = LoadFromTextFile(text_file.lines, text_file.height, text_file.width)
    /\ UNCHANGED <<inputVars, storeVars, cacheVars, regVars, codecVars, sampleVars, exportVars>>

\* load(data_path), then get_frame(idx) and get_timestamp(idx).
CallGetFrame ==
    \E idx \in 0..1 :
        LET loaded == LoadFromTextFile(text_file.lines, text_file.height, text_file.width)
        IN  /\ ~loaded.raised
            /\ call' = [op |-> "get_frame", lines |-> text_file.lines,
                        height |-> text_file.height, width |-> text_file.width,
                        idx |-> idx]
            /\ ret' = [frame |-> GetFrame(FramesCelsius(loaded.frames), idx),
                       timestamp |-> GetTimestamp(loaded.timestamps, idx),
                       line_of |-> loaded.line_of]
            /\ UNCHANGED <<inputVars, storeVars, cacheVars, regVars, codecVars, sampleVars, exportVars>>

TextNext == CallLoadFromTextFile \/ CallGetFrame

\* The text loader over every small file.
SpecText == TextInit /\ [][TextNext]_vars

\* ---------------------------------------------------- claims C11, C12
\* What a reader of the text frame format finds on each line of LinePool:
\* the five-digit tokens left once the t: token is taken away, in order,
\* and the seconds of the t: token (in ticks of 0.1 ms, -1 when there is none).
FiveDigitTokens(text) ==
    CASE text = "t: 1.5 29315 29316 29317 29318" -> <<29315, 29316, 29317, 29318>>
      [] text = "t:2.25 29401 29402 29403" -> <<29401, 29402, 29403>>
      [] text = "t: 3.0 29500" -> <<29500>>
      [] text = "29601 29602 29603 29604 29605" -> <<29601, 29602, 29603, 29604, 29605>>
      [] text = "t:12345 2931 293155 29701,29702" -> <<29701, 29702>>
      [] OTHER -> << >>

LineTimestamp(text) ==
    CASE text = "t: 1.5 29315 29316 29317 29318" -> 15000
      [] text = "t:2.25 29401 29402 29403" -> 22500
      [] text = "t: 3.0 29500" -> 30000
      [] text = "t:12345 2931 293155 29701,29702" -> 123450000
      [] OTHER -> -1

IsTextCall == call.op \in {"load_text", "get_frame"}

YieldsFrame(line_idx) ==
    Len(FiveDigitTokens(call.lines[line_idx + 1])) >= call.height * call.width

\* The line_idx of the lines after the first that should yield a frame.
YieldingLines == SelectSeq([i \in 1..(Len(call.lines) - 1) |-> i], YieldsFrame)

EveryLineStamped ==
    \A i \in 2..Len(call.lines) : LineTimestamp(call.lines[i]) >= 0

\* C12: when every line after the first carries a t: token, the timestamp
\* returned at the index of a frame is the t: value of the line that frame
\* was decoded from, also when lines are skipped for having too few tokens;
\* get_frame(idx) and get_timestamp(idx) then belong to the same line.
C12_TimestampOfSameLine ==
    (IsTextCall /\ EveryLineStamped) =>
        IF call.op = "load_text"
        THEN \A k \in 1..Len(ret.frames) :
                /\ k <= Len(ret.timestamps)
                /\ k <= Len(YieldingLines)
                /\ ret.timestamps[k] = LineTimestamp(call.lines[YieldingLines[k] + 1])
        ELSE ret.frame.found =>
                /\ ret.timestamp.found
                /\ call.idx + 1 <= Len(YieldingLines)
                /\ ret.timestamp.value =
                       LineTimestamp(call.lines[YieldingLines[call.idx + 1] + 1])

\* ------------------------------------------------------------ rendering
\* Temperatures of a frame to be drawn are tenths of a degree Celsius; a
\* frame to normalize is a flat sequence of pixels.  Normalized box
\* coordinates are thousandths.  int() and astype() cut towards zero.
MaxPixels == 2
MaxBoxes == 1

Trunc(n, d) == IF n >= 0 THEN n \div d ELSE -((-n) \div d)

TempPool == {-50, 200, 215, 230, 260, 400}

\* vmin / vmax as passed by a caller; NoBound is None.
NoBound == [given |-> FALSE, value |-> 0]
Bound(v) == [given |-> TRUE, value |-> v]
BoundPool == {NoBound, Bound(200), Bound(260)}

\* astype(np.uint8) of a whole number: inside 0..255 it is the number; outside
\* the C conversion is undefined, and a build either keeps the low eight bits
\* or saturates.
CastUint8(q, cast) ==
    IF q \in 0..255 THEN q
    ELSE IF cast = "wrap" THEN q % 256
    ELSE IF q < 0 THEN 0 ELSE 255

ClipUnit(n, d) == IF n < 0 THEN 0 ELSE IF n > d THEN d ELSE n

\* RawThermalVisualizer._visualize_frame, the two normalizing statements:
\* np.clip((frame - vmin) / (vmax - vmin), 0, 1), then (* 255).astype(uint8).
RawNormalize(frame, vmin, vmax) ==
    [i \in 1..Len(frame) |->
        Trunc(255 * ClipUnit(frame[i] - vmin, vmax - vmin), vmax - vmin)]

\* AnnotationVisualizer.normalize_frame_for_display with vmin and vmax
\* resolved: ((frame - vmin) / (vmax - vmin) * 255).astype(np.uint8).
NormalizeResolved(frame, vmin, vmax, cast) ==
    [i \in 1..Len(frame) |->
        CastUint8(Trunc(255 * (frame[i] - vmin), vmax - vmin), cast)]

ResolveMin(frame, vmin) == IF vmin.given THEN vmin.value ELSE Min(Range(frame))
ResolveMax(frame, vmax) == IF vmax.given THEN vmax.value ELSE Max(Range(frame))

NormalizeFrameForDisplay(frame, vmin, vmax, cast) ==
    NormalizeResolved(frame, ResolveMin(frame, vmin), ResolveMax(frame, vmax), cast)

\* Shapes of a source frame (height, width) and scale factors.
SourceShapePool == {<<40, 60>>, <<2, 3>>}
ScalePool == {1, 8}

\* Boxes [cx, cy, w, h]; << >> is an annotation without a bbox
\* (ann.get('bbox', [])).
BoxPool == {<<500, 500, 100, 100>>, <<500, 50, 100, 100>>, <<250, 125, 500, 250>>,
            <<50, 20, 200, 100>>, << >>}

\* What cv2.getTextSize hands back for a label: ((text_width, text_height),
\* baseline).
TextSizePool == {[text_width |-> 96, text_height |-> 12, baseline |-> 5],
                 [text_width |-> 48, text_height |-> 6, baseline |-> 3]}

UnscaledSize(side, scale_factor) == side

\* scaled_width = width * self.scale_factor (and the same for the height)
ScaledSize(side, scale_factor) == side * scale_factor

\* draw_bbox: the rectangle handed to cv2.rectangle, from the image's own
\* height and width.
DrawBbox(image, bbox) ==
    LET x == Trunc((2 * bbox[1] - bbox[3]) * image.width, 2000)
        y == Trunc((2 * bbox[2] - bbox[4]) * image.height, 2000)
        w == Trunc(bbox[3] * image.width, 1000)
        h == Trunc(bbox[4] * image.height, 1000)
    IN  [op |-> "rectangle", pt1 |-> <<x, y>>, pt2 |-> <<x + w, y + h>>]

\* y_text = max(y - 5, text_height + 5)
LabelBaseline(y, text_height) == Max({y - 5, text_height + 5})

\* draw_label: the filled background rectangle and the origin of the text
\* (the bottom-left corner of the string).
DrawLabel(image, bbox, size) ==
    LET x == Trunc((2 * bbox[1] - bbox[3]) * image.width, 2000)
        y == Trunc((2 * bbox[2] - bbox[4]) * image.height, 2000)
        y_text == LabelBaseline(y, size.text_height)
    IN  <<[op |-> "label_bg",
           pt1 |-> <<x, y_text - size.text_height - size.baseline - 2>>,
           pt2 |-> <<x + size.text_width + 2, y_text + size.baseline>>],
          [op |-> "text", pt1 |-> <<x + 1, y_text - size.baseline - 1>>,
           pt2 |-> <<x + 1 + size.text_width, y_text - size.baseline - 1 - size.text_height>>]>>

RECURSIVE DrawAnnotations(_, _, _, _)
DrawAnnotations(image, boxes, i, size) ==
    IF i > Len(boxes) THEN image
    ELSE IF Len(boxes[i]) # 4 THEN [image EXCEPT !.raised = TRUE]
    ELSE DrawAnnotations(
             [image EXCEPT !.ops = @ \o <<DrawBbox(image, boxes[i])>>
                                     \o DrawLabel(image, boxes[i], size)],
             boxes, i + 1, size)

\* visualize_frame: normalize, cvtColor, resize, then the boxes and labels of
\* the annotation, then the timestamp.  An annotation without a bbox makes the
\* unpacking in draw_bbox raise.
VisualizeFrame(shape, scale_factor, boxes, size) ==
    LET scaled == [width |-> ScaledSize(shape[2], scale_factor),
                   height |-> ScaledSize(shape[1], scale_factor),
                   ops |-> <<[op |-> "resize",
                              pt1 |-> <<0, 0>>,
                              pt2 |-> <<ScaledSize(shape[2], scale_factor),
                                        ScaledSize(shape[1], scale_factor)>>]>>,
                   raised |-> FALSE]
        drawn == DrawAnnotations(scaled, boxes, 1, size)
    IN  IF drawn.raised THEN drawn
        ELSE [drawn EXCEPT !.ops = @ \o <<[op |-> "timestamp", pt1 |-> <<5, 5>>,
                                          pt2 |-> <<5, 5>>]>>]

\* What a caller hands to the renderer: a frame to normalize with its
\* bounds, or a frame shape to draw on with the boxes of its annotation.
NormalizeScenes ==
    [kind : {"normalize"}, frame : SeqsUpTo(TempPool, MaxPixels) \ {<< >>},
     vmin : BoundPool, vmax : BoundPool]

VisualizeScenes ==
    [kind : {"visualize"}, shape : SourceShapePool, scale_factor : ScalePool,
     boxes : SeqsUpTo(BoxPool, MaxBoxes), size : TextSizePool]

RenderInit ==
    /\ NoStore /\ NoCache /\ NoRegistry /\ NoWire /\ NoExport /\ NoText /\ NoSample
    /\ scene \in NormalizeScenes \cup VisualizeScenes
    /\ timestamps = << >>
    /\ annotations = << >>
    /\ call = NoCall
    /\ ret = None

\* normalize_frame_for_display(frame, vmin, vmax); the span is positive
\* (a zero span divides by zero).
CallNormalizeFrameForDisplay ==
    \E cast \in {"wrap", "saturate"} :
        /\ scene.kind = "normalize"
        /\ ResolveMax(scene.frame, scene.vmax) > ResolveMin(scene.frame, scene.vmin)
        /\ call' = [op |-> "normalize", class |-> "AnnotationVisualizer",
                    frame |-> scene.frame,
                    given |-> scene.vmin.given /\ scene.vmax.given,
                    vmin |-> ResolveMin(scene.frame, scene.vmin),
                    vmax |-> ResolveMax(scene.frame, scene.vmax)]
        /\ ret' = NormalizeFrameForDisplay(scene.frame, scene.vmin, scene.vmax, cast)
        /\ UNCHANGED <<inputVars, storeVars, cacheVars, regVars, codecVars, sampleVars, exportVars>>

\* The normalizing statements of RawThermalVisualizer._visualize_frame, which
\* is always handed both bounds.
CallRawNormalize ==
    /\ scene.kind = "normalize"
    /\ scene.vmin.given /\ scene.vmax.given
    /\ scene.vmax.value > scene.vmin.value
    /\ call' = [op |-> "normalize", class |-> "RawThermalVisualizer",
                frame |-> scene.frame, given |-> TRUE,
                vmin |-> scene.vmin.value, vmax |-> scene.vmax.value]
    /\ ret' = RawNormalize(scene.frame, scene.vmin.value, scene.vmax.value)
    /\ UNCHANGED <<inputVars, storeVars, cacheVars, regVars, codecVars, sampleVars, exportVars>>

\* visualize_frame on a frame of some shape with the boxes of its annotation.
CallVisualizeFrame ==
    /\ scene.kind = "visualize"
    /\ call' = [op |-> "visualize_frame", shape |-> scene.shape,
                scale_factor |-> scene.scale_factor, boxes |-> scene.boxes,
                size |-> scene.size]
    /\ ret' = VisualizeFrame(scene.shape, scene.scale_factor, scene.boxes, scene.size)
    /\ UNCHANGED <<inputVars, storeVars, cacheVars, regVars, codecVars, sampleVars, exportVars>>

RenderNext == CallNormalizeFrameForDisplay \/ CallRawNormalize \/ CallVisualizeFrame

\* The renderer over small frames, boxes and label sizes.
SpecRender == RenderInit /\ [][RenderNext]_vars

\* ------------------------------------------------ claims C13, C14, C15
\* C13: with caller-supplied vmin and vmax, normalization gives every pixel
\* the 8-bit value clip((value - vmin)/(vmax - vmin), 0, 1) * 255: 0 at or
\* below vmin, 255 at or above vmax, monotone in between, never wrapped
\* around -- in AnnotationVisualizer as in RawThermalVisualizer.
C13_NormalizeClipsTo8Bit ==
    (call.op = "normalize" /\ call.given) =>
        \A i \in 1..Len(call.frame) :
            /\ ret[i] \in 0..255
            /\ call.frame[i] <= call.vmin => ret[i] = 0
            /\ call.frame[i] >= call.vmax => ret[i] = 255
            /\ ret[i] = Trunc(255 * ClipUnit(call.frame[i] - call.vmin,
                                             call.vmax - call.vmin),
                              call.vmax - call.vmin)
            /\ \A j \in 1..Len(call.frame) :
                  call.frame[i] <= call.frame[j] => ret[i] <= ret[j]

IsDrawn == call.op = "visualize_frame" /\ ~ret.raised

\* C14: visualize_frame resizes before it draws, the image of a height x
\* width source is (width*scale) x (height*scale), and the rectangle of each
\* box (cx, cy, w, h) has its top-left corner at ((cx - w/2)*W, (cy - h/2)*H)
\* and the size (w*W, h*H), W and H being the scaled sides, in whole pixels.
C14_BoxesOnScaledImage ==
    IsDrawn =>
        LET W == call.shape[2] * call.scale_factor
            H == call.shape[1] * call.scale_factor
        IN  /\ ret.width = W /\ ret.height = H
            /\ ret.ops[1].op = "resize" /\ ret.ops[1].pt2 = <<W, H>>
            /\ \A k \in 2..Len(ret.ops) : ret.ops[k].op # "resize"
            /\ Len(ret.ops) = 2 + 3 * Len(call.boxes)
            /\ \A b \in 1..Len(call.boxes) :
                  LET box == call.boxes[b]
                      rect == ret.ops[3 * b - 1]
                  IN  /\ rect.op = "rectangle"
                      /\ rect.pt1 = <<Trunc((2 * box[1] - box[3]) * W, 2000),
                                      Trunc((2 * box[2] - box[4]) * H, 2000)>>
                      /\ rect.pt2[1] - rect.pt1[1] = Trunc(box[3] * W, 1000)
                      /\ rect.pt2[2] - rect.pt1[2] = Trunc(box[4] * H, 1000)

\* Scale 8 on a 40x60 source: the image is 480x320 and the box
\* (0.5, 0.5, 0.1, 0.1) is the rectangle (216,144)-(264,176), centred at
\* (240,160), 48 wide and 32 high.
C14_Witness ==
    /\ IsDrawn
    /\ call.shape = <<40, 60>> /\ call.scale_factor = 8
    /\ call.boxes = <<<<500, 500, 100, 100>>>>
    /\ ret.width = 480 /\ ret.height = 320
    /\ ret.ops[2] = [op |-> "rectangle", pt1 |-> <<216, 144>>, pt2 |-> <<264, 176>>]

\* C15: the label background and the text never reach above the top border
\* of the image: the top edge of the background rectangle and the top of the
\* text have y >= 0, whatever the box position, text height and baseline.
C15_LabelInsideTopBorder ==
    IsDrawn =>
        \A k \in 1..Len(ret.ops) :
            /\ ret.ops[k].op = "label_bg" => ret.ops[k].pt1[2] >= 0
            /\ ret.ops[k].op = "text" => ret.ops[k].pt2[2] >= 0

\* -------------------------------------------------------------- exports
\* An export run of VideoExporter or RawThermalVisualizer, statement by
\* statement.  A loaded frame is held by one temperature (tenths of a degree
\* Celsius); vmin and vmax are held in units of 1/2000 of that, which makes
\* the percentile interpolation and the 5% margin exact.
ExportKinds == {"video", "raw_video", "images", "raw_images"}
VideoKinds == {"video", "raw_video"}
AnnotatedKinds == {"video", "images"}

FrameTempPool == {200, 260}
StartPool == {0, 1, 2}

\* num_frames: None, or a count
NumFramesPool == {NoBound, Bound(1), Bound(2)}

\* The runs: the exporter and method, the loaded frames, the arguments, the
\* frame indexes whose annotation has an object without a bbox (their
\* rendering raises; the raw visualizer draws no annotation), and whether
\* cv2.VideoWriter manages to open the file (writer.isOpened()).
ExportRuns ==
    {r \in [kind : ExportKinds, frames : SeqsUpTo(FrameTempPool, MaxFrames),
            start_frame : StartPool, num_frames : NumFramesPool,
            bad : SUBSET (0..(MaxFrames - 1)), can_open : BOOLEAN] :
        /\ Cardinality(r.bad) <= 1
        /\ r.bad \subseteq 0..(Len(r.frames) - 1)
        /\ r.kind \notin AnnotatedKinds => r.bad = {}
        /\ r.kind \notin VideoKinds => r.can_open}

\* end_frame = min(start_frame + num_frames, total_frames), num_frames
\* defaulting to total_frames - start_frame
EndFrame(r) ==
    LET total_frames == Len(r.frames)
        num_frames == IF r.num_frames.given THEN r.num_frames.value
                      ELSE total_frames - r.start_frame
    IN  Min({r.start_frame + num_frames, total_frames})

\* the frame indexes of only the first frame of the range
FirstFrameOnly(start_frame, end_frame) ==
    IF start_frame < end_frame THEN <<start_frame>> ELSE << >>

\* frames_celsius[start_frame:end_frame], as the indexes it takes
RangeSlice(start_frame, end_frame) ==
    [i \in 1..Max({end_frame - start_frame, 0}) |-> start_frame + i - 1]

\* 100 * np.percentile(values, q), linear interpolation between the two
\* neighbours of position (n - 1) * q / 100 of the sorted values.
Percentile100(values, q) ==
    LET sorted == SortSeq(values, LAMBDA a, b : a < b)
        position == (Len(sorted) - 1) * q
        below == position \div 100
        part == position % 100
    IN  IF part = 0 THEN 100 * sorted[below + 1]
        ELSE 100 * sorted[below + 1] + part * (sorted[below + 2] - sorted[below + 1])

\* _calculate_temperature_range: the 1st and 99th percentile of the frames
\* of the slice, widened by 5% of their distance; in units of 1/2000.
CalculateTemperatureRange(frames, slice) ==
    LET values == [i \in 1..Len(slice) |-> frames[slice[i] + 1]]
        low == Percentile100(values, 1)
        high == Percentile100(values, 99)
    IN  [set |-> TRUE, vmin |-> 20 * low - (high - low), vmax |-> 20 * high + (high - low),
         over |-> slice]

\* An entry of the history.
Ev(ev, idx, vmin, vmax, over) ==
    [ev |-> ev, idx |-> idx, vmin |-> vmin, vmax |-> vmax, over |-> over]
Did(ev, idx) == Ev(ev, idx, 0, 0, << >>)

\* range(start_frame, end_frame) with the frame already drawn left out
LoopStartsAfterFirst(start_frame) == start_frame + 1

\* range(start_frame, end_frame) begins at start_frame
LoopStart(start_frame) == start_frame

OpenNeverFails(can_open) == FALSE

\* "if not writer.isOpened(): raise RuntimeError"
OpenFailed(can_open) == ~can_open

Raise ==
    /\ pc' = "failed"
    /\ trace' = Append(trace, Did("raise", loop_idx))

\* vmin, vmax = self._calculate_temperature_range(start_frame, end_frame).
\* On an empty slice np.percentile has nothing to work on: a video export does
\* not get past its first frame; an image export either raises here or goes
\* on to an empty loop, depending on what np.percentile does.
ComputeRange ==
    /\ pc = "start"
    /\ LET slice == RangeSlice(run.start_frame, EndFrame(run))
       IN  IF slice = << >>
           THEN /\ \/ Raise
                   \/ /\ run.kind \notin VideoKinds
                      /\ pc' = "loop"
                      /\ trace' = trace
                /\ loop_idx' = LoopStart(run.start_frame)
                /\ UNCHANGED norm
           ELSE /\ norm' = CalculateTemperatureRange(run.frames, slice)
                /\ trace' = Append(trace, Ev("bounds", run.start_frame, norm'.vmin,
                                             norm'.vmax, norm'.over))
                /\ pc' = IF run.kind \in VideoKinds THEN "first" ELSE "loop"
                /\ loop_idx' = LoopStart(run.start_frame)
    /\ UNCHANGED <<run, writer, call, ret>>
    /\ UNCHANGED <<inputVars, storeVars, cacheVars, regVars, codecVars, sampleVars>>

\* first_viz = visualize_frame(first_frame, ..., vmin, vmax), for the
\* dimensions of the video.
RenderFirst ==
    /\ pc = "first"
    /\ IF run.start_frame \in run.bad
       THEN Raise
       ELSE /\ trace' = Append(trace, Ev("render", run.start_frame, norm.vmin,
                                         norm.vmax, << >>))
            /\ pc' = "open"
    /\ UNCHANGED <<run, loop_idx, norm, writer, call, ret>>
    /\ UNCHANGED <<inputVars, storeVars, cacheVars, regVars, codecVars, sampleVars>>

\* writer = cv2.VideoWriter(...), then the isOpened() test.
OpenWriter ==
    /\ pc = "open"
    /\ writer' = IF run.can_open THEN "open" ELSE "unopened"
    /\ IF OpenFailed(run.can_open)
       THEN Raise
       ELSE /\ trace' = Append(trace, Did("open", run.start_frame))
            /\ pc' = "loop"
    /\ UNCHANGED <<run, loop_idx, norm, call, ret>>
    /\ UNCHANGED <<inputVars, storeVars, cacheVars, regVars, codecVars, sampleVars>>

\* One turn of "for frame_idx in range(start_frame, end_frame)", up to the
\* rendered frame.
RenderFrame ==
    /\ pc = "loop"
    /\ loop_idx < EndFrame(run)
    /\ IF loop_idx \in run.bad
       THEN Raise
       ELSE /\ trace' = Append(trace, Ev("render", loop_idx, norm.vmin, norm.vmax, << >>))
            /\ pc' = "write"
    /\ UNCHANGED <<run, loop_idx, norm, writer, call, ret>>
    /\ UNCHANGED <<inputVars, storeVars, cacheVars, regVars, codecVars, sampleVars>>

\* writer.write(viz_frame), or cv2.imwrite for an image export.
WriteFrame ==
    /\ pc = "write"
    /\ trace' = Append(trace, Did(IF run.kind \in VideoKinds THEN "write" ELSE "save",
                                  loop_idx))
    /\ loop_idx' = loop_idx + 1
    /\ pc' = "loop"
    /\ UNCHANGED <<run, norm, writer, call, ret>>
    /\ UNCHANGED <<inputVars, storeVars, cacheVars, regVars, codecVars, sampleVars>>

\* After the loop: writer.release() of a video export, and the return.
Finish ==
    /\ pc = "loop"
    /\ loop_idx >= EndFrame(run)
    /\ IF run.kind \in VideoKinds
       THEN /\ writer' = "released"
            /\ trace' = Append(trace, Did("release", loop_idx))
       ELSE UNCHANGED <<writer, trace>>
    /\ pc' = "done"
    /\ UNCHANGED <<run, loop_idx, norm, call, ret>>
    /\ UNCHANGED <<inputVars, storeVars, cacheVars, regVars, codecVars, sampleVars>>

ExportInit ==
    /\ NoStore /\ NoCache /\ NoRegistry /\ NoWire /\ NoText /\ NoScene /\ NoSample
    /\ timestamps = << >>
    /\ annotations = << >>
    /\ call = NoCall
    /\ ret = None
    /\ run \in ExportRuns
    /\ pc = "start"
    /\ loop_idx = 0
    /\ norm = [set |-> FALSE]
    /\ writer = "none"
    /\ trace = << >>

ExportNext ==
    ComputeRange \/ RenderFirst \/ OpenWriter \/ RenderFrame \/ WriteFrame \/ Finish

\* Every export run over small inputs.
SpecExport == ExportInit /\ [][ExportNext]_vars

\* ------------------------------------------------- claims C16 .. C19
\* The frame indexes of the entries of one kind in the history, in order.
IdxOf(ev) ==
    LET sel == SelectSeq(trace, LAMBDA e : e.ev = ev)
    IN  [i \in 1..Len(sel) |-> sel[i].idx]

\* min(start_frame + num_frames, total_frames) as the claims read it.
RangeEnd ==
    LET total == Len(run.frames)
        count == IF run.num_frames.given THEN run.num_frames.value
                 ELSE total - run.start_frame
    IN  IF run.start_frame + count < total THEN run.start_frame + count ELSE total

ExportRange ==
    [i \in 1..(IF RangeEnd > run.start_frame THEN RangeEnd - run.start_frame ELSE 0) |->
        run.start_frame + i - 1]

IsVideoRun == run.kind \in {"video", "raw_video"}

\* C16: export_video writes frames in strictly increasing index order, only
\* indexes of [start_frame, min(start_frame + num_frames, total_frames)),
\* and a run that returns has written each index of that range exactly once.
C16_WritesInIndexOrder ==
    IsVideoRun =>
        LET written == IdxOf("write")
        IN  /\ \A i \in 1..Len(written) : \A j \in 1..Len(written) :
                  i < j => written[i] < written[j]
            /\ \A i \in 1..Len(written) : written[i] \in Range(ExportRange)
            /\ pc = "done" => written = ExportRange

\* A video export of frames 1 and 2 of three, returned.
C16_Witness ==
    /\ IsVideoRun
    /\ pc = "done"
    /\ Len(run.frames) = 3
    /\ run.start_frame = 1
    /\ IdxOf("write") = <<1, 2>>

\* C17: a run of export_video that has opened the writer ends, normally or
\* by a failure, with the writer released after the last frame written, and
\* nothing is written after the release.
C17_WriterReleasedAtEnd ==
    (IsVideoRun /\ pc \in {"done", "failed"} /\ IdxOf("open") # << >>) =>
        /\ writer = "released"
        /\ trace[Len(trace)].ev = "release"
        /\ \A i \in 1..Len(trace) : \A j \in 1..Len(trace) :
              (i < j /\ trace[i].ev = "release") => trace[j].ev # "write"

OpenRefused == IsVideoRun /\ ~run.can_open /\ writer # "none"

\* C18: when the video writer cannot be opened, export_video fails before any
\* frame is processed (rendered or written), and no frame is written.
C18_OpenFailureBeforeAnyFrame ==
    OpenRefused =>
        /\ pc = "failed"
        /\ IdxOf("render") = << >>
        /\ IdxOf("write") = << >>

\* C18 as the code has it: when the video writer cannot be opened,
\* export_video fails before the frame loop: no frame is ever written; by
\* then the range is computed and the first frame of the range has been
\* rendered once, for the dimensions of the video.
C18_OpenFailureBeforeAnyWrite ==
    OpenRefused =>
        /\ pc = "failed"
        /\ writer = "unopened"
        /\ trace[Len(trace)].ev = "raise"
        /\ IdxOf("write") = << >>
        /\ IdxOf("render") = <<run.start_frame>>

\* A refused writer in a run that had two frames to export.
C18_Witness ==
    /\ OpenRefused
    /\ pc = "failed"
    /\ Len(ExportRange) = 2

C20_CacheNeverShrinks ==
    [][cache_frames => (DOMAIN frame_cache \subseteq DOMAIN frame_cache')]_vars

\* A prefetch that brought a frame into a cache which already held, and
\* still holds, a timestamp the batch did not return.
C20_Witness ==
    /\ cache_frames
    /\ call.op = "prefetch"
    /\ ret.frames # << >>
    /\ \E k \in DOMAIN frame_cache : k \notin DOMAIN ret.frames

\* ===================================================== claims C21 .. C23
\* The annotations no row of the table is within tolerance of, as
\* batch_query_frames compares them (the row's ts read as local time).
HasRowWithin(target_ts) ==
    \E r \in store : BatchWithin(RowTsMs(r, tz), target_ts, DefaultToleranceMs)

\* C21: a missing frame is reported as an explicit no-match and never as a
\* zero-filled frame: query_frame_by_timestamp returns None when its window
\* holds no row and never returns the placeholder, batch_query_frames returns
\* decoded frames only and leaves out every timestamp that has no row within
\* tolerance; __getitem__ substitutes the all-zero placeholder exactly when
\* its query returned None, and logs a warning every time it does.
C21_MissingIsExplicit ==
    /\ call.op = "query_frame" =>
           /\ ret.frame.kind \in {"frame", "none"}
           /\ RowsInWindow(store, call.query - call.tolerance,
                           call.query + call.tolerance) = {}
                  => ret.frame.kind = "none"
    /\ call.op = "prefetch" =>
           /\ \A k \in DOMAIN ret.frames : ret.frames[k].kind = "frame"
           /\ \A i \in 1..Len(annotations) :
                  ~HasRowWithin(annotations[i]) => annotations[i] \notin DOMAIN ret.frames
    /\ call.op = "getitem" =>
           /\ ret.fetched.kind \in {"frame", "none"}
           /\ (~call.hit /\ ret.fetched.kind = "none") => (ret.frame = Zeros /\ ret.warned)
           /\ (~call.hit /\ ret.fetched.kind = "frame") => (ret.frame = ret.fetched /\ ~ret.warned)
           /\ ret.warned => ret.frame = Zeros

\* A __getitem__ whose query found no row: the placeholder is returned and
\* the warning logged.
C21_Witness ==
    /\ call.op = "getitem"
    /\ ~call.hit
    /\ store # {}
    /\ ret.fetched.kind = "none"
    /\ ret.frame = Zeros
    /\ ret.warned

\* The rows batch_query_frames gets back for the loaded annotations.
BatchRows ==
    RowsInWindow(store, Min(Range(annotations)) - call.tolerance,
                 Max(Range(annotations)) + call.tolerance)

\* C22: a decode failure does not abort the batch: when batch_query_frames
\* met a payload that does not decode, every row of the result set that
\* decodes and is within tolerance of a requested timestamp has still been
\* decoded and assigned.
C22_DecodeFailureSkipsOneFrame ==
    (call.op = "batch_query" /\ ret.aborted) =>
        \A r \in BatchRows \ bad :
            FirstTargetWithin(annotations, RowTsMs(r, tz), call.tolerance) # 0
                => \E k \in 1..Len(ret.log) : ret.log[k][1] = r

\* C23: the frame prefetch_all_frames puts in the cache for an annotation is
\* the frame query_frame_by_timestamp fetches for it on demand (a timestamp
\* the batch leaves out is fetched on demand by __getitem__ in both cases).
C23_PrefetchSameAsOnDemand ==
    call.op = "prefetch" =>
        \A k \in DOMAIN ret.frames :
            ret.frames[k] = QueryFrameByTimestamp(store, bad, k,
                                                  DefaultToleranceMs, "ok")

\* ============================================================ claim C25
\* The annotations (0-based) that have a thermal timestamp strictly less
\* than 100 ms (1000 ticks) away.
HasFrameWithinTolerance(idx) ==
    \E j \in 1..Len(timestamps) :
        Abs(timestamps[j] - annotations[idx + 1] * 10) < DefaultToleranceMs * 10

\* C25: the summary of verify_match accounts for every annotation once:
\* matched + unmatched is the number of annotations, matched counts exactly
\* the annotations that have a frame timestamp within tolerance, and
\* unmatched_indices lists exactly the others, each once.
C25_SummaryAccountsForAll ==
    call.op = "verify_match" =>
        /\ ret.matched + ret.unmatched = Len(annotations)
        /\ ret.total_annotations = Len(annotations)
        /\ ret.unmatched = Len(ret.unmatched_indices)
        /\ ret.matched =
               Cardinality({idx \in 0..(Len(annotations) - 1) : HasFrameWithinTolerance(idx)})
        /\ Range(ret.unmatched_indices) =
               {idx \in 0..(Len(annotations) - 1) : ~HasFrameWithinTolerance(idx)}
        /\ \A k, m \in 1..Len(ret.unmatched_indices) :
               ret.unmatched_indices[k] = ret.unmatched_indices[m] => k = m

\* ===================================================== claims C29, C30
\* C29: with caching on, a __getitem__ for a timestamp that is in the cache
\* makes no query and returns the cached frame, whether that is a fetched
\* frame or the placeholder, and no __getitem__ changes an entry the cache
\* already holds; a __getitem__ for a timestamp not in the cache makes one
\* query and caches what it returns.
C29_OneQueryPerTimestamp ==
    [][(cache_frames /\ call'.op = "getitem") =>
           /\ \A k \in DOMAIN frame_cache :
                  k \in DOMAIN frame_cache' /\ frame_cache'[k] = frame_cache[k]
           /\ call'.query \in DOMAIN frame_cache' /\ ret'.frame = frame_cache'[call'.query]
           /\ IF call'.query \in DOMAIN frame_cache
              THEN ret'.queries = 0 /\ frame_cache' = frame_cache
              ELSE ret'.queries = 1]_vars

\* A __getitem__ answered from the cache with the placeholder an earlier
\* __getitem__ put there, although the table now would give a frame.
C29_Witness ==
    /\ cache_frames
    /\ call.op = "getitem"
    /\ call.hit
    /\ ret.queries = 0
    /\ ret.frame = Zeros
    /\ QueryFrameByTimestamp(store, bad, call.query, DefaultToleranceMs, "ok").kind = "frame"

\* C30: the remote paths reject a frame that is exactly the tolerance away
\* from the requested timestamp: every frame query_frame_by_timestamp returns
\* and every row batch_query_frames assigns is strictly closer than the
\* tolerance.
C30_RemoteBoundaryRejected ==
    /\ (call.op \in {"query_frame", "getitem"} /\ ret.fetched.kind = "frame") =>
           Abs(ret.fetched.ts - call.query) < call.tolerance
    /\ call.op = "prefetch" =>
           \A k \in 1..Len(ret.log) :
               Abs(RowTsMs(ret.log[k][1], tz) - annotations[ret.log[k][2]]) < call.tolerance

\* ================================================= temperature conversion
\* ThermalFrameDataProcessor.convert_temperature works on a numpy array in
\* the array's own precision; the arrays here are float32, the dtype the
\* frames are decoded to, and a Python float operand (273.15, 10.0) is
\* rounded to float32 before the operation.  A float32 is held exactly, as
\* m * 2^e with m odd (m = 0, e = 0 for zero); exponent overflow and
\* subnormals do not occur at the magnitudes of the pools.
FloatPrecision == 24

RECURSIVE BitLen(_)
BitLen(n) == IF n = 0 THEN 0 ELSE 1 + BitLen(n \div 2)

\* m * 2^e with the factors of two moved from m to e
RECURSIVE Canon(_, _)
Canon(m, e) ==
    IF m = 0 THEN [m |-> 0, e |-> 0]
    ELSE IF m % 2 = 0 THEN Canon(m \div 2, e + 1)
    ELSE [m |-> m, e |-> e]

\* n * 2^e rounded to FloatPrecision significant bits, ties to even.
RoundToFloat(n, e) ==
    LET mag == Abs(n)
        k == BitLen(mag) - FloatPrecision
    IN  IF k <= 0 THEN Canon(n, e)
        ELSE LET q == mag \div (2 ^ k)
                 r == mag % (2 ^ k)
                 half == 2 ^ (k - 1)
                 up == r > half \/ (r = half /\ q % 2 = 1)
                 rounded == IF up THEN q + 1 ELSE q
             IN  Canon(IF n < 0 THEN -rounded ELSE rounded, e + k)

FNeg(a) == [m |-> -a.m, e |-> a.e]

\* a + b
FAdd(a, b) ==
    IF a.m = 0 THEN b
    ELSE IF b.m = 0 THEN a
    ELSE LET e == IF a.e < b.e THEN a.e ELSE b.e
         IN  RoundToFloat(a.m * 2 ^ (a.e - e) + b.m * 2 ^ (b.e - e), e)

\* a - b
FSub(a, b) == FAdd(a, FNeg(b))

\* a * b
FMul(a, b) == RoundToFloat(a.m * b.m, a.e + b.e)

\* the least s with n * 2^s >= bound
RECURSIVE ShiftUpTo(_, _, _)
ShiftUpTo(n, bound, s) == IF n * 2 ^ s >= bound THEN s ELSE ShiftUpTo(n, bound, s + 1)

\* a value left as it is
NoDivision(a, b) == a

\* a / b, for b # 0: the quotient is taken to at least one bit more than
\* the precision, and what the integer division leaves over decides the
\* rounding.
FDiv(a, b) ==
    IF a.m = 0 THEN a
    ELSE LET den == Abs(b.m)
             s == ShiftUpTo(Abs(a.m), den * 2 ^ FloatPrecision, 0)
             num == Abs(a.m) * 2 ^ s
             q == num \div den
             rem == num % den
             k == BitLen(q) - FloatPrecision
             q1 == q \div (2 ^ k)
             left == (q % (2 ^ k)) * den + rem
             whole == den * 2 ^ k
             up == 2 * left > whole \/ (2 * left = whole /\ q1 % 2 = 1)
             rounded == IF up THEN q1 + 1 ELSE q1
             negative == (a.m < 0) # (b.m < 0)
         IN  Canon(IF negative THEN -rounded ELSE rounded, a.e - b.e - s + k)

\* np.float32(273.15) = 273.1499938964844 and 10.0
KelvinOffset == [m |-> 8950579, e |-> -15]
Ten == [m |-> 5, e |-> 1]

\* an operation on every element of an array
MapArray(Op(_), data) == [i \in 1..Len(data) |-> Op(data[i])]

\* the unit arguments, lower case as .lower() leaves them
UnitPool == {"kelvin", "celsius", "decikelvin"}
NoUnit == "None"

ValueError == [raised |-> TRUE, data |-> << >>]
Returned(data) == [raised |-> FALSE, data |-> data]

\* ThermalFrameDataProcessor.convert_temperature
ConvertTemperature(temperature_unit, data, from_unit_arg, to_unit) ==
    LET from_unit == IF from_unit_arg = NoUnit THEN temperature_unit ELSE from_unit_arg
        supported == from_unit \in {"decikelvin", "celsius", "kelvin"}
        kelvin_data ==
            IF from_unit = "decikelvin" THEN MapArray(LAMBDA x : FDiv(x, Ten), data)
            ELSE IF from_unit = "celsius" THEN MapArray(LAMBDA x : FAdd(x, KelvinOffset), data)
            ELSE data
    IN  IF from_unit = to_unit THEN Returned(data)
        ELSE IF ~supported THEN ValueError
        ELSE IF to_unit = "kelvin" THEN Returned(kelvin_data)
        ELSE IF to_unit = "celsius"
             THEN Returned(MapArray(LAMBDA x : FSub(x, KelvinOffset), kelvin_data))
        ELSE IF to_unit = "decikelvin"
             THEN Returned(MapArray(LAMBDA x : FMul(x, Ten), kelvin_data))
        ELSE ValueError

\* The float32 values an array may hold, by unit:
\* kelvin 293.15f, 300.0, 290.5; celsius 20.0, 26.85f, 20.5;
\* decikelvin 2931.5, 3000.0, 2936.0.
ValuePool(unit) ==
    IF unit = "kelvin"
    THEN {[m |-> 9605939, e |-> -15], [m |-> 75, e |-> 2], [m |-> 581, e |-> -1]}
    ELSE IF unit = "celsius"
    THEN {[m |-> 5, e |-> 2], [m |-> 14077133, e |-> -19], [m |-> 41, e |-> -1]}
    ELSE {[m |-> 5863, e |-> -1], [m |-> 375, e |-> 3], [m |-> 367, e |-> 3]}

TemperatureInit ==
    /\ NoStore /\ NoCache /\ NoRegistry /\ NoWire /\ NoExport /\ NoText /\ NoScene
    /\ timestamps = << >>
    /\ annotations = << >>
    /\ annotation_file = << >>
    /\ output_dir = NoOutput
    /\ \E unit \in UnitPool :
           temperature \in {[kind |-> "array", data |-> d, unit |-> unit] :
                                d \in SeqsUpTo(ValuePool(unit), MaxPixels) \ {<< >>}}
    /\ call = NoCall
    /\ ret = None

\* convert_temperature(data, from_unit, to_unit) on a processor whose
\* temperature_unit is the array's unit.
CallConvertTemperature ==
    \E from_unit \in {NoUnit, temperature.unit}, to_unit \in UnitPool :
        /\ call' = [op |-> "convert", from_unit |-> temperature.unit, to_unit |-> to_unit]
        /\ ret' = ConvertTemperature(temperature.unit, temperature.data, from_unit, to_unit)
        /\ UNCHANGED <<inputVars, storeVars, cacheVars, regVars, codecVars, sampleVars, exportVars>>

\* The array just converted is converted back to the unit it came from.
CallConvertBack ==
    /\ call.op = "convert"
    /\ ~ret.raised
    /\ call' = [op |-> "convert_back", from_unit |-> call.to_unit,
                to_unit |-> call.from_unit, there |-> ret.data]
    /\ ret' = ConvertTemperature(temperature.unit, ret.data, call.to_unit, call.from_unit)
    /\ UNCHANGED <<inputVars, storeVars, cacheVars, regVars, codecVars, sampleVars, exportVars>>

TemperatureNext == CallConvertTemperature \/ CallConvertBack

SpecTemperature == TemperatureInit /\ [][TemperatureNext]_vars

\* ============================================================ claim C26
IsRoundTrip == call.op = "convert_back" /\ ~ret.raised

\* the exponent of the unit in the last place of a
UlpExp(a) == BitLen(Abs(a.m)) + a.e - FloatPrecision

\* |a - b| <= 2^u
WithinTwoTo(a, b, u) ==
    LET e == IF a.e < b.e THEN a.e ELSE b.e
        d == Abs(a.m * 2 ^ (a.e - e) - b.m * 2 ^ (b.e - e))
    IN  IF u >= e THEN d <= 2 ^ (u - e) ELSE d * 2 ^ (e - u) <= 1

\* C26 as stated: converting an array to another unit and back returns the
\* original values, for every ordered pair of units.
C26_RoundTripExact ==
    IsRoundTrip => ret.data = temperature.data

\* C26 as it holds: the round trip returns every value to within one unit
\* in the last place of the larger of the value and its converted value; it
\* is exact when the two units are the same, and from Kelvin to Celsius and
\* back (at these temperatures the subtraction of 273.15 is exact).
C26_RoundTripWithinUlp ==
    IsRoundTrip =>
        /\ Len(ret.data) = Len(temperature.data)
        /\ \A i \in 1..Len(ret.data) :
               LET x == temperature.data[i]
                   mid == call.there[i]
                   u == IF UlpExp(x) > UlpExp(mid) THEN UlpExp(x) ELSE UlpExp(mid)
               IN  WithinTwoTo(ret.data[i], x, u)
        /\ call.from_unit = call.to_unit => ret.data = temperature.data
        /\ (call.to_unit = "kelvin" /\ call.from_unit = "celsius")
               => ret.data = temperature.data

\* 26.85 degrees Celsius to Kelvin (300.0) and back comes out as 26.850006.
C26_Witness ==
    /\ IsRoundTrip
    /\ call.to_unit = "celsius" /\ call.from_unit = "kelvin"
    /\ temperature.data = <<[m |-> 14077133, e |-> -19]>>
    /\ call.there = <<[m |-> 75, e |-> 2]>>
    /\ ret.data # temperature.data

\* ================================================== annotation records
MaxRecords == 2

\* The objects an annotation record may hold: <<category, subcategory, bbox>>,
\* the box in thousandths; the third has a box that is not four numbers.
PersonStanding == <<"person", "standing", <<500, 500, 100, 100>>>>
PersonSitting == <<"person", "sitting", <<250, 750, 200, 100>>>>
NoBoxObject == <<"person", "standing", << >>>>

\* The parsed lines an annotation file may hold.  The first two carry the
\* same data_id and lie 20 ms apart, the third has no object and lies 200 ms
\* later, the fifth has an object without a usable box.
RecordLines ==
    {[data_time |-> 5000, data_id |-> "a", annotations |-> <<PersonStanding>>],
     [data_time |-> 5020, data_id |-> "a", annotations |-> <<PersonSitting>>],
     [data_time |-> 5200, data_id |-> "b", annotations |-> << >>],
     [data_time |-> 5000, data_id |-> "c", annotations |-> <<PersonSitting, PersonStanding>>],
     [data_time |-> 5020, data_id |-> "d", annotations |-> <<NoBoxObject>>]}

AnnotationFiles == SeqsUpTo(RecordLines, MaxRecords)

\* ---------------------------------- ThermalAnnotationDataset.__getitem__
\* The shape of a fetched frame (rows are 60 wide and 40 high) and of the
\* placeholder np.zeros((40, 60)).
ShapeOf(frame) == <<40, 60>>

\* torch.from_numpy(frame).unsqueeze(0)
Unsqueeze0(shape) == <<1>> \o shape

HasFourNumbers(obj) == Len(obj[3]) = 4

\* "label_id = self.category_to_id.get(full_category, 0)"
LabelId(mapping, obj) ==
    IF FullCategory(obj[1], obj[2]) \in DOMAIN mapping
    THEN mapping[FullCategory(obj[1], obj[2])] ELSE 0

\* ThermalAnnotationDataset._process_annotation: the target dict, as a
\* function of its keys.
ProcessAnnotation(annotation, mapping) ==
    LET objects == annotation.annotations
        kept == SelectSeq(objects, HasFourNumbers)
    IN  IF objects = << >>
        THEN [boxes |-> << >>,
              labels |-> << >>,
              image_id |-> annotation.data_id,
              timestamp |-> annotation.data_time]
        ELSE [boxes |-> [i \in 1..Len(kept) |-> kept[i][3]],
              labels |-> [i \in 1..Len(kept) |-> LabelId(mapping, kept[i])],
              image_id |-> annotation.data_id,
              timestamp |-> annotation.data_time,
              num_objects |-> Len(objects)]

IndexError == [raised |-> TRUE]

\* __getitem__(idx), whole: the index test, the frame (from the cache, or
\* fetched, or the placeholder), the tensor with its channel dimension, and
\* the target of _process_annotation; no transform is set.
DatasetGetItemSample ==
    \E idx \in 0..Len(annotation_file), net \in NetPool :
        IF idx >= Len(annotation_file)
        THEN /\ call' = [op |-> "sample", idx |-> idx, hit |-> FALSE]
             /\ ret' = IndexError
             /\ UNCHANGED <<inputVars, storeVars, cacheVars, regVars, codecVars, sampleVars, exportVars>>
        ELSE LET annotation == annotation_file[idx + 1]
                 data_time_ms == annotation.data_time
                 hit == CacheHit(cache_frames, frame_cache, data_time_ms)
                 fetched == IF hit THEN NoFrame
                            ELSE QueryFrameByTimestamp(store, bad, data_time_ms,
                                                       DefaultToleranceMs, net)
                 is_none == ~hit /\ fetched.kind = "none"
                 frame == IF hit THEN frame_cache[data_time_ms]
                          ELSE IF is_none THEN Zeros ELSE fetched
             IN  /\ frame_cache' = IF ~hit /\ cache_frames
                                   THEN Put(frame_cache, data_time_ms, frame)
                                   ELSE frame_cache
                 /\ call' = [op |-> "sample", idx |-> idx, hit |-> hit]
                 /\ ret' = [raised |-> FALSE,
                            frame |-> frame,
                            frame_tensor |-> Unsqueeze0(ShapeOf(frame)),
                            target |-> ProcessAnnotation(annotation, category_to_id)]
                 /\ UNCHANGED <<inputVars, storeVars, cache_frames, regVars, codecVars, sampleVars, exportVars>>

\* A dataset constructed over an annotation file: the records, their
\* data_time, the category mapping built from them, an empty cache.
SampleInit ==
    /\ NoWire /\ NoExport /\ NoText /\ NoScene
    /\ timestamps = << >>
    /\ temperature = [kind |-> "none"]
    /\ output_dir = NoOutput
    /\ annotation_file \in AnnotationFiles
    /\ annotations = DataTimes(annotation_file)
    /\ store \in {{}, {5000}}
    /\ bad \in SUBSET store
    /\ tz = 0
    /\ cache_frames \in BOOLEAN
    /\ frame_cache = << >>
    /\ owner = "dataset"
    /\ category_to_id = BuildCategoryMapping(annotation_file).category_to_id
    /\ id_to_category = BuildCategoryMapping(annotation_file).id_to_category
    /\ next_id = BuildCategoryMapping(annotation_file).next_id
    /\ first_seen = << >>
    /\ call = NoCall
    /\ ret = None

SampleNext == DatasetGetItemSample

SpecSample == SampleInit /\ [][SampleNext]_vars

\* ============================================================ claim C24
\* C24: for every valid index __getitem__ returns a frame tensor with three
\* dimensions, the first of size one, and a target that has the keys boxes,
\* labels, num_objects and timestamp, with or without objects in the
\* annotation and with or without a frame found.
C24_SampleShapeAndKeys ==
    (call.op = "sample" /\ ~ret.raised) =>
        /\ Len(ret.frame_tensor) = 3
        /\ ret.frame_tensor[1] = 1
        /\ {"boxes", "labels", "num_objects", "timestamp"} \subseteq DOMAIN ret.target

\* =============================================== YOLOExporter.export_annotations
\* The thermal files the exporter may have loaded (ticks of 0.1 ms): no
\* frame, one frame at 5.08 s, frames at 4.92 s and 5.08 s.
YoloFrames == {<< >>, <<50800>>, <<49200, 50800>>}

\* f"{frame_idx:04d}"
Pad4(n) ==
    IF n < 10 THEN "000" \o ToString(n)
    ELSE IF n < 100 THEN "00" \o ToString(n)
    ELSE IF n < 1000 THEN "0" \o ToString(n)
    ELSE ToString(n)

\* a name made of the data_id alone
NameWithoutFrame(data_id, frame_idx) == data_id \o ".txt"

\* f"{data_id}_frame_{frame_idx:04d}.txt"
LabelFileName(data_id, frame_idx) == data_id \o "_frame_" \o Pad4(frame_idx) \o ".txt"

\* The loop over the objects of one annotation, the label file open for
\* writing: the class id is looked up (and registered) first, then the box
\* is unpacked, which raises when it is not four numbers, then the line
\* <<class_id, cx, cy, w, h>> is written.
RECURSIVE WriteObjects(_, _, _, _)
WriteObjects(acc, label_file, objects, k) ==
    IF k > Len(objects) THEN acc
    ELSE LET ann == objects[k]
             reg == Register(acc.reg, ann[1], ann[2])
             class_id == RegisteredId(reg, ann[1], ann[2])
             looked == [acc EXCEPT !.reg = reg,
                                   !.seen = Append(@, <<ann[1], ann[2]>>)]
         IN  IF Len(ann[3]) # 4
             THEN [looked EXCEPT !.raised = TRUE]
             ELSE WriteObjects(
                      [looked EXCEPT !.labels[label_file] = Append(@, <<class_id>> \o ann[3])],
                      label_file, objects, k + 1)

\* The loop of export_annotations over the annotations: one without a
\* frame within tolerance is skipped; for the others the label file is
\* opened with mode 'w', which empties a file of that name.
RECURSIVE ExportLoop(_, _, _, _)
ExportLoop(acc, file, ts, i) ==
    IF i > Len(file) \/ acc.raised THEN acc
    ELSE LET annotation == file[i]
             frame_idx == FindFrameByTimestamp(ts, annotation.data_time)
             label_file == LabelFileName(annotation.data_id, frame_idx.idx)
             opened == [acc EXCEPT !.labels = Put(@, label_file, << >>),
                                   !.written = Append(@, <<i, label_file>>)]
             done == WriteObjects(opened, label_file, annotation.annotations, 1)
         IN  IF ~frame_idx.found
             THEN ExportLoop(acc, file, ts, i + 1)
             ELSE ExportLoop(IF done.raised THEN done
                             ELSE [done EXCEPT !.exported_count = @ + 1],
                             file, ts, i + 1)

\* the categories from the highest id down
ClassesReversed(id_map) ==
    LET ids == SortedRows(DOMAIN id_map)
    IN  [k \in 1..Len(ids) |-> id_map[ids[Len(ids) + 1 - k]]]

\* _export_class_mapping: the lines of classes.txt
ExportClassMapping(id_map) ==
    LET ids == SortedRows(DOMAIN id_map)
    IN  [k \in 1..Len(ids) |-> id_map[ids[k]]]

\* _export_dataset_info: nc and names of dataset.yaml
ExportDatasetInfo(id_map) ==
    LET ids == SortedRows(DOMAIN id_map)
    IN  [nc |-> Cardinality(DOMAIN id_map),
         names |-> [k \in 1..Len(ids) |-> <<ids[k], id_map[ids[k]]>>]]

\* export_annotations, whole.  output_dir.written lists the files this call
\* opened, with the position of the annotation each was opened for.
ExportAnnotations ==
    LET start == [reg |-> Registry, labels |-> output_dir.labels, written |-> << >>,
                  seen |-> << >>, exported_count |-> 0, raised |-> FALSE]
        acc == ExportLoop(start, annotation_file, timestamps, 1)
    IN  /\ owner = "exporter"
        /\ SetRegistry(acc.reg)
        /\ first_seen' = SeenAfter(first_seen, acc.seen)
        /\ output_dir' =
               IF acc.raised
               THEN [output_dir EXCEPT !.labels = acc.labels, !.written = acc.written]
               ELSE [labels |-> acc.labels,
                     classes |-> ExportClassMapping(acc.reg.id_to_category),
                     info |-> ExportDatasetInfo(acc.reg.id_to_category),
                     written |-> acc.written]
        /\ call' = [op |-> "export_annotations"]
        /\ ret' = [raised |-> acc.raised, exported_count |-> acc.exported_count]
        /\ UNCHANGED <<text_file, scene, timestamps, annotations, annotation_file,
                       temperature, storeVars, cacheVars, owner, codecVars, exportVars>>

\* An exporter constructed over a thermal file and an annotation file.
YoloInit ==
    /\ NoStore /\ NoCache /\ NoWire /\ NoExport /\ NoText /\ NoScene
    /\ temperature = [kind |-> "none"]
    /\ output_dir = NoOutput
    /\ timestamps \in YoloFrames
    /\ annotation_file \in AnnotationFiles
    /\ annotations = DataTimes(annotation_file)
    /\ owner = "exporter"
    /\ category_to_id = << >> /\ id_to_category = << >> /\ next_id = 0
    /\ first_seen = << >>
    /\ call = NoCall
    /\ ret = None

\* The categories get_category_id is called with from outside the export.
YoloPairs == {<<"person", "sitting">>, <<"object", "chair/office">>}

\* get_category_id called on the exporter, between exports.
GetCategoryIdOutsideExport == ExporterGetCategoryId /\ call'.pair \in YoloPairs

YoloNext == ExportAnnotations \/ GetCategoryIdOutsideExport

SpecYolo == YoloInit /\ [][YoloNext]_vars

\* ====================================================== claims C27, C28
ExportCompleted == call.op = "export_annotations" /\ ~ret.raised

\* the class ids on the lines of the label files under output_dir
ClassIdsWritten ==
    UNION {{output_dir.labels[f][k][1] : k \in 1..Len(output_dir.labels[f])} :
               f \in DOMAIN output_dir.labels}

\* C27: after export_annotations, line k of classes.txt (from 0) is the
\* category with id k, the ids have no gap, and every class id on any line
\* of any label file is the index of a line of classes.txt.
C27_ClassesInIdOrder ==
    ExportCompleted =>
        /\ DOMAIN id_to_category = 0..(Len(output_dir.classes) - 1)
        /\ \A k \in 0..(Len(output_dir.classes) - 1) :
               /\ output_dir.classes[k + 1] = id_to_category[k]
               /\ category_to_id[output_dir.classes[k + 1]] = k
        /\ ClassIdsWritten \subseteq 0..(Len(output_dir.classes) - 1)

\* An export after which classes.txt has two lines, a label file holds a
\* line of class 1, and class 0 was registered before the export and is in
\* no label file.
C27_Witness ==
    /\ ExportCompleted
    /\ Len(output_dir.classes) = 2
    /\ 1 \in ClassIdsWritten
    /\ 0 \notin ClassIdsWritten

\* the annotations (positions in the file) that have a frame within tolerance
MatchedAnnotations ==
    {i \in 1..Len(annotation_file) :
         FindFrameByTimestamp(timestamps, annotation_file[i].data_time).found}

\* C28: export_annotations writes a label file for exactly the annotations
\* that have a frame within tolerance, skipping the others and going on, and
\* no two annotations are written to the same file: there are as many label
\* files as matched annotations.
C28_OneFilePerMatchedAnnotation ==
    ExportCompleted =>
        /\ {output_dir.written[k][1] : k \in 1..Len(output_dir.written)} = MatchedAnnotations
        /\ ret.exported_count = Cardinality(MatchedAnnotations)
        /\ \A k, m \in 1..Len(output_dir.written) :
               output_dir.written[k][2] = output_dir.written[m][2] => k = m
        /\ Cardinality({output_dir.written[k][2] : k \in 1..Len(output_dir.written)})
               = Cardinality(MatchedAnnotations)

====
